---------------------------- MODULE Spec2Model ----------------------------
(***************************************************************************)
(* Model of the Dockerfile analysis core of the repository:                *)
(*   - DockerfileLinter.lint_file            (src/dockerfile_linter.py)    *)
(*   - DockerfileOptimizer._post_process_optimized_content,                *)
(*     _detect_distro and _package_version_ok (src/main.py)                *)
(* Text is modelled at character level: a string is a sequence of          *)
(* one-character strings, so that strip(), startswith(), the regular       *)
(* expressions and re.sub() are computed the way the code computes them.   *)
(***************************************************************************)
EXTENDS Integers, Sequences, FiniteSets, TLC

(***************************************************************************)
(* Characters and string helpers (Python str methods used by the code).    *)
(***************************************************************************)
UpperCase ==
  <<"A","B","C","D","E","F","G","H","I","J","K","L","M",
    "N","O","P","Q","R","S","T","U","V","W","X","Y","Z">>

LowerCase ==
  <<"a","b","c","d","e","f","g","h","i","j","k","l","m",
    "n","o","p","q","r","s","t","u","v","w","x","y","z">>

Digits == {"0","1","2","3","4","5","6","7","8","9"}

Letters == {UpperCase[i] : i \in 1..26} \cup {LowerCase[i] : i \in 1..26}

\* \w of the re module (ASCII part)
WordChars == Letters \cup Digits \cup {"_"}

\* characters removed by str.strip() / matched by \s
WhiteSpace == {" ", "\t", "\n", "\r", "\f"}

\* the printable ASCII characters in code order (the double quote and the
\* back quote are left out); the order decides the ranges of a bracket class
Ascii ==
  <<" ", "!", "#", "$", "%", "&", "'", "(", ")", "*", "+", ",", "-", ".",
    "/", "0", "1", "2", "3", "4", "5", "6", "7", "8", "9", ":", ";", "<",
    "=", ">", "?", "@",
    "A","B","C","D","E","F","G","H","I","J","K","L","M",
    "N","O","P","Q","R","S","T","U","V","W","X","Y","Z",
    "[", "\\", "]", "^", "_",
    "a","b","c","d","e","f","g","h","i","j","k","l","m",
    "n","o","p","q","r","s","t","u","v","w","x","y","z",
    "{", "|", "}", "~">>

\* every character of the model; . of the re module under re.DOTALL
AllChars == {Ascii[i] : i \in 1..Len(Ascii)} \cup WhiteSpace

\* ord(c), up to a shift
Ord(c) == CHOOSE i \in 1..Len(Ascii) : Ascii[i] = c

\* . of the re module: any character except a newline
AnyChar == AllChars \ {"\n"}

ToUpper(c) ==
  IF \E i \in 1..26 : LowerCase[i] = c
  THEN UpperCase[CHOOSE i \in 1..26 : LowerCase[i] = c]
  ELSE c

ToLower(c) ==
  IF \E i \in 1..26 : UpperCase[i] = c
  THEN LowerCase[CHOOSE i \in 1..26 : UpperCase[i] = c]
  ELSE c

\* str.upper()
Upper(s) == [i \in 1..Len(s) |-> ToUpper(s[i])]

\* str.lower()
Lower(s) == [i \in 1..Len(s) |-> ToLower(s[i])]

\* str.startswith(p)
StartsWith(s, p) ==
  /\ Len(p) <= Len(s)
  /\ \A i \in 1..Len(p) : s[i] = p[i]

\* str.endswith(p)
EndsWith(s, p) ==
  /\ Len(p) <= Len(s)
  /\ \A i \in 1..Len(p) : s[Len(s) - Len(p) + i] = p[i]

\* p occurs in s starting at position i
OccursAt(s, p, i) ==
  /\ i >= 1
  /\ i + Len(p) - 1 <= Len(s)
  /\ \A j \in 1..Len(p) : s[i + j - 1] = p[j]

\* p in s
Contains(s, p) == \E i \in 1..(Len(s) + 1) : OccursAt(s, p, i)

\* str.find(p) + 1 (0 when absent)
Find(s, p) ==
  IF Contains(s, p)
  THEN CHOOSE i \in 1..(Len(s) + 1) :
         OccursAt(s, p, i) /\ \A j \in 1..(i - 1) : ~OccursAt(s, p, j)
  ELSE 0

\* str.lstrip() with a set of characters
LStripSet(s, cs) ==
  LET first == IF \E i \in 1..Len(s) : s[i] \notin cs
               THEN CHOOSE i \in 1..Len(s) :
                      s[i] \notin cs /\ \A j \in 1..(i - 1) : s[j] \in cs
               ELSE Len(s) + 1
  IN SubSeq(s, first, Len(s))

\* str.rstrip() with a set of characters
RStripSet(s, cs) ==
  LET last == IF \E i \in 1..Len(s) : s[i] \notin cs
              THEN CHOOSE i \in 1..Len(s) :
                     s[i] \notin cs /\ \A j \in (i + 1)..Len(s) : s[j] \in cs
              ELSE 0
  IN SubSeq(s, 1, last)

\* str.strip()
Strip(s) == LStripSet(RStripSet(s, WhiteSpace), WhiteSpace)

\* str.rstrip()
RStrip(s) == RStripSet(s, WhiteSpace)

\* a variant that keeps the newline of the line
KeepNewline(s) == s

\* str.rstrip(newline)
RStripNewline(s) == RStripSet(s, {"\n"})

(***************************************************************************)
(* Regular expressions (Python re).  A pattern is a sequence of items; the *)
(* matcher computes, for a set of start positions, the set of positions    *)
(* at which a match of the pattern can end.  re.IGNORECASE is modelled by  *)
(* writing the literals in lower case and matching the lower-cased text.   *)
(***************************************************************************)
\* one character of the class cs
One(cs) == [k |-> "set", q |-> "1", cs |-> cs, sub |-> <<>>, alt |-> <<>>]

\* cs+
Plus(cs) == [k |-> "set", q |-> "+", cs |-> cs, sub |-> <<>>, alt |-> <<>>]

\* cs*
Star(cs) == [k |-> "set", q |-> "*", cs |-> cs, sub |-> <<>>, alt |-> <<>>]

\* (?:a|b)
Alt(a, b) == [k |-> "alt", q |-> "1", cs |-> {}, sub |-> a, alt |-> b]

\* (sub)?
Opt(sub) == Alt(sub, <<>>)

\* ^ under re.MULTILINE
Bol == [k |-> "bol", q |-> "1", cs |-> {}, sub |-> <<>>, alt |-> <<>>]

\* $ under re.MULTILINE
Eol == [k |-> "eol", q |-> "1", cs |-> {}, sub |-> <<>>, alt |-> <<>>]

\* \b
WordBoundary == [k |-> "wb", q |-> "1", cs |-> {}, sub |-> <<>>, alt |-> <<>>]

\* (?:(?!lit).)* : any characters, none of them starting an occurrence of lit
StarNotAhead(lit) ==
  [k |-> "nla", q |-> "*", cs |-> AnyChar, sub |-> lit, alt |-> <<>>]

\* a literal string
Lit(str) == [i \in 1..Len(str) |-> One({str[i]})]

\* is position p of s (between s[p-1] and s[p]) a word boundary
IsWordBoundary(s, p) ==
  LET before == p > 1 /\ s[p - 1] \in WordChars
      after  == p <= Len(s) /\ s[p] \in WordChars
  IN before # after

\* end positions of a maximal-or-shorter run of class characters from p
RunEnds(s, p, cs, least) ==
  {e \in (p + least)..(Len(s) + 1) : \A j \in p..(e - 1) : s[j] \in cs}

RECURSIVE Ends(_, _, _)
\* positions where a match of pattern re, started at a position of P, ends
Ends(re, s, P) ==
  IF re = <<>> \/ P = {} THEN P
  ELSE
    LET it == Head(re)
        next ==
          CASE it.k = "set" /\ it.q = "1" ->
                 {p + 1 : p \in {x \in P : x <= Len(s) /\ s[x] \in it.cs}}
            [] it.k = "set" /\ it.q = "+" ->
                 UNION {RunEnds(s, p, it.cs, 1) : p \in P}
            [] it.k = "set" /\ it.q = "*" ->
                 UNION {RunEnds(s, p, it.cs, 0) : p \in P}
            [] it.k = "nla" ->
                 UNION {{e \in RunEnds(s, p, it.cs, 0) :
                           \A j \in p..(e - 1) : ~OccursAt(s, it.sub, j)}
                        : p \in P}
            [] it.k = "alt" -> Ends(it.sub, s, P) \cup Ends(it.alt, s, P)
            [] it.k = "bol" -> {p \in P : p = 1 \/ s[p - 1] = "\n"}
            [] it.k = "eol" -> {p \in P : p = Len(s) + 1 \/ s[p] = "\n"}
            [] it.k = "wb"  -> {p \in P : IsWordBoundary(s, p)}
    IN Ends(Tail(re), s, next)

\* pattern.search(s) is not None
Search(re, s) == Ends(re, s, 1..(Len(s) + 1)) # {}

\* re.match(re, s) is not None
Match(re, s) == Ends(re, s, {1}) # {}

\* pattern.search / re.match under re.IGNORECASE
SearchIgnoreCase(re, s) == Search(re, Lower(s))

MatchIgnoreCase(re, s) == Match(re, Lower(s))

(***************************************************************************)
(* Rule catalogs.  A rule is [id, title, regex_pattern]; id is the index   *)
(* n of DOCKER_00n assigned by _load_rules, regex_pattern the source text  *)
(* of the pattern, compiled by Compile.                                    *)
(***************************************************************************)
TitleUser == "Use USER Instruction and specify a non root user"

TitleUpgrade == "Avoid 'apt-get upgrade'"

TitleCombine == "Combine RUN commands to reduce layers"

TitleMultiStage == "Use multi-stage builds"

TitleWorkdir == "Use WORKDIR instead of RUN cd"

\* the value None of a failed rule lookup
NoRule == [id |-> -1, title |-> "", regex_pattern |-> ""]

\* re.compile(regex_pattern, IGNORECASE | MULTILINE): literals in lower case
Compile(p) ==
  CASE p = "^USER\\s+root" ->
         <<Bol>> \o Lit(<<"u", "s", "e", "r">>) \o <<Plus(WhiteSpace)>>
                 \o Lit(<<"r", "o", "o", "t">>)
    [] p = "apt-get upgrade" ->
         Lit(<<"a", "p", "t", "-", "g", "e", "t", " ",
               "u", "p", "g", "r", "a", "d", "e">>)
    [] p = "RUN .* && RUN .*" ->
         Lit(<<"r", "u", "n", " ">>) \o <<Star(AnyChar)>>
           \o Lit(<<" ", "&", "&", " ", "r", "u", "n", " ">>)
           \o <<Star(AnyChar)>>
    [] p = "FROM .* AS builder" ->
         Lit(<<"f", "r", "o", "m", " ">>) \o <<Star(AnyChar)>>
           \o Lit(<<" ", "a", "s", " ", "b", "u", "i", "l", "d", "e", "r">>)
    [] p = "(?i)^\\s*USER\\s+root\\b" ->
         <<Bol, Star(WhiteSpace)>> \o Lit(<<"u", "s", "e", "r">>)
           \o <<Plus(WhiteSpace)>> \o Lit(<<"r", "o", "o", "t">>)
           \o <<WordBoundary>>
    [] p = "(?i)^\\s*FROM\\s+[\\w\\-]+(:[\\w\\.\\-]+)?(\\s+AS\\s+\\w+)?$" ->
         <<Bol, Star(WhiteSpace)>> \o Lit(<<"f", "r", "o", "m">>)
           \o <<Plus(WhiteSpace), Plus(WordChars \cup {"-"}),
                Opt(<<One({":"}), Plus(WordChars \cup {".", "-"})>>),
                Opt(<<Plus(WhiteSpace)>> \o Lit(<<"a", "s">>)
                      \o <<Plus(WhiteSpace), Plus(WordChars)>>),
                Eol>>
    [] p = "(?i)^\\s*RUN\\s+cd\\s+[\\w\\/]+" ->
         <<Bol, Star(WhiteSpace)>> \o Lit(<<"r", "u", "n">>)
           \o <<Plus(WhiteSpace)>> \o Lit(<<"c", "d">>)
           \o <<Plus(WhiteSpace), Plus(WordChars \cup {"/"})>>
    [] p = "(?i)(?:^|\\n)RUN\\s+(?:(?!&&).)*$\\s*(?:^|\\n)RUN\\s+" ->
         <<Alt(<<Bol>>, <<One({"\n"})>>)>> \o Lit(<<"r", "u", "n">>)
           \o <<Plus(WhiteSpace), StarNotAhead(<<"&", "&">>), Eol,
                Star(WhiteSpace), Alt(<<Bol>>, <<One({"\n"})>>)>>
           \o Lit(<<"r", "u", "n">>) \o <<Plus(WhiteSpace)>>

\* the pattern of the named-stage pre-check of lint_file
NamedStagePattern ==
  <<Bol, Star(WhiteSpace)>> \o Lit(<<"f", "r", "o", "m">>)
    \o <<Plus(WhiteSpace), Plus(WordChars \cup {"-"}),
         Opt(<<One({":"}), Plus(WordChars \cup {".", "-"})>>),
         Plus(WhiteSpace)>>
    \o Lit(<<"a", "s">>) \o <<Plus(WhiteSpace), Plus(WordChars), Eol>>

\* CATEGORY_SEVERITY: the severity of each category of the table
CATEGORY_SEVERITY ==
  [c \in {"Security Best Practices", "Base Image Selection & Versioning",
          "Dependency Management", "Build Optimization", "Maintainability",
          "CI/CD & Best Practices", "Runtime Configuration"} |->
     CASE c = "Security Best Practices" -> "CRITICAL"
       [] c \in {"Base Image Selection & Versioning",
                 "Dependency Management"} -> "HIGH"
       [] c \in {"Build Optimization", "Maintainability"} -> "MEDIUM"
       [] OTHER -> "LOW"]

\* a variant that gives a definition without category the lowest severity
AbsentIsLow(rule_data) ==
  IF "category" \in DOMAIN rule_data
       /\ rule_data.category \in DOMAIN CATEGORY_SEVERITY
  THEN CATEGORY_SEVERITY[rule_data.category]
  ELSE "LOW"

\* severity_str of _load_rules: rule_data.get("category", "Maintainability")
\* looked up in the table, "LOW" for a category the table does not hold
SeverityStr(rule_data) ==
  LET category == IF "category" \in DOMAIN rule_data
                  THEN rule_data.category
                  ELSE "Maintainability"
  IN IF category \in DOMAIN CATEGORY_SEVERITY
     THEN CATEGORY_SEVERITY[category]
     ELSE "LOW"

\* the pattern texts on which re.compile raises re.error ("missing ),
\* unterminated subpattern")
MalformedPatterns == {"(unclosed"}

\* _load_rules: the index of the definition becomes the id of the rule
LoadRules(rules_data) ==
  [i \in 1..Len(rules_data) |->
     [id |-> i - 1,
      title |-> rules_data[i].title,
      severity |-> SeverityStr(rules_data[i]),
      regex_pattern |-> rules_data[i].regex_pattern]]

\* the rule definitions of the linter fixture of the test suite
FixtureRulesData ==
  << [title |-> TitleUser, category |-> "Security Best Practices",
      regex_pattern |-> "^USER\\s+root"],
     [title |-> TitleUpgrade, category |-> "Dependency Management",
      regex_pattern |-> "apt-get upgrade"],
     [title |-> TitleCombine, category |-> "Build Optimization",
      regex_pattern |-> "RUN .* && RUN .*"],
     [title |-> TitleMultiStage, category |-> "Build Optimization",
      regex_pattern |-> "FROM .* AS builder"] >>

\* rule definitions built from the patterns of DOCKERFILE_PATTERNS, which
\* carry no category
PatternRulesData ==
  << [title |-> TitleUser, regex_pattern |-> "(?i)^\\s*USER\\s+root\\b"],
     [title |-> TitleMultiStage,
      regex_pattern |->
        "(?i)^\\s*FROM\\s+[\\w\\-]+(:[\\w\\.\\-]+)?(\\s+AS\\s+\\w+)?$"],
     [title |-> TitleWorkdir,
      regex_pattern |-> "(?i)^\\s*RUN\\s+cd\\s+[\\w\\/]+"],
     [title |-> TitleCombine,
      regex_pattern |->
        "(?i)(?:^|\\n)RUN\\s+(?:(?!&&).)*$\\s*(?:^|\\n)RUN\\s+"] >>

\* the rules file that rules_path names: a file that holds rule
\* definitions, no file, a file that may not be read, or a file whose
\* content is not JSON
RulesFiles ==
  {[state |-> "file", data |-> FixtureRulesData],
   [state |-> "file", data |-> PatternRulesData],
   [state |-> "missing", data |-> <<>>],
   [state |-> "unreadable", data |-> <<>>],
   [state |-> "unparsable", data |-> <<>>]}

\* print(f"Error: Could not find {self.rules_path}. ...")
RulesNotFound == "Error: Could not find the rules file"

\* print(f"Error: Could not find Dockerfile at {dockerfile_path}")
DockerfileNotFound == "Error: Could not find Dockerfile"

\* self._load_rules() on a rules file: the rules returned, what is printed,
\* and the exception that leaves the call ("none" when it returns); only
\* FileNotFoundError is caught, and re.compile raises on a malformed pattern
LoadRulesFrom(source) ==
  CASE source.state = "missing" ->
         [rules |-> <<>>, printed |-> <<RulesNotFound>>, raised |-> "none"]
    [] source.state = "unreadable" ->
         [rules |-> <<>>, printed |-> <<>>, raised |-> "PermissionError"]
    [] source.state = "unparsable" ->
         [rules |-> <<>>, printed |-> <<>>, raised |-> "JSONDecodeError"]
    [] \E i \in 1..Len(source.data) :
           source.data[i].regex_pattern \in MalformedPatterns ->
         [rules |-> <<>>, printed |-> <<>>, raised |-> "re.error"]
    [] OTHER ->
         [rules |-> LoadRules(source.data), printed |-> <<>>,
          raised |-> "none"]

\* the rules files with which DockerfileLinter(rules_path) returns a linter
LoadableRulesFiles == {f \in RulesFiles : LoadRulesFrom(f).raised = "none"}

\* a variant of the lookup that stands a rule of that title in for a missing
\* one
RuleOrStandIn(rs, t) ==
  IF \E i \in 1..Len(rs) : rs[i].title = t
  THEN rs[CHOOSE i \in 1..Len(rs) :
            rs[i].title = t /\ \A j \in 1..(i - 1) : rs[j].title # t]
  ELSE [id |-> Len(rs), title |-> t, regex_pattern |-> ""]

\* next((rule for rule in self.rules if rule.title == t), None)
RuleByTitle(rs, t) ==
  IF \E i \in 1..Len(rs) : rs[i].title = t
  THEN rs[CHOOSE i \in 1..Len(rs) :
            rs[i].title = t /\ \A j \in 1..(i - 1) : rs[j].title # t]
  ELSE NoRule

(***************************************************************************)
(* The lines a Dockerfile is made of, as readlines() returns them.         *)
(***************************************************************************)
\* "FROM ubuntu"
LineFrom == <<"F", "R", "O", "M", " ", "u", "b", "u", "n", "t", "u", "\n">>

\* "FROM node:18 AS builder"
LineFromNamed ==
  <<"F", "R", "O", "M", " ", "n", "o", "d", "e", ":", "1", "8", " ",
    "A", "S", " ", "b", "u", "i", "l", "d", "e", "r", "\n">>

\* "FROM gcr.io/base AS builder"
LineFromRegistryNamed ==
  <<"F", "R", "O", "M", " ", "g", "c", "r", ".", "i", "o", "/", "b", "a",
    "s", "e", " ", "A", "S", " ", "b", "u", "i", "l", "d", "e", "r", "\n">>

\* "USER root"
LineUserRoot == <<"U", "S", "E", "R", " ", "r", "o", "o", "t", "\n">>

\* "  user app"
LineUserApp == <<" ", " ", "u", "s", "e", "r", " ", "a", "p", "p", "\n">>

\* "RUN make"
LineRun == <<"R", "U", "N", " ", "m", "a", "k", "e", "\n">>

\* "RUN cd /x"
LineRunCd == <<"R", "U", "N", " ", "c", "d", " ", "/", "x", "\n">>

\* "RUN a && RUN b"
LineRunRun ==
  <<"R", "U", "N", " ", "a", " ", "&", "&", " ", "R", "U", "N", " ", "b",
    "\n">>

\* "COPY a b"
LineCopy == <<"C", "O", "P", "Y", " ", "a", " ", "b", "\n">>

\* "# note"
LineComment == <<"#", " ", "n", "o", "t", "e", "\n">>

\* an empty line
LineBlank == <<"\n">>

DockerfileLines ==
  {LineFrom, LineFromNamed, LineFromRegistryNamed, LineUserRoot,
   LineUserApp, LineRun, LineRunCd, LineRunRun, LineCopy, LineComment,
   LineBlank}

(***************************************************************************)
(* State.                                                                  *)
(***************************************************************************)
VARIABLES
  rules_source,           \* the rules file that rules_path names
  rules,                  \* DockerfileLinter.rules of the linter instance
  dockerfile,             \* the lines of the Dockerfile on disk
  on_disk,                \* the Dockerfile exists
  console,                \* the diagnostics printed so far
  pc,                     \* "constructed" until lint_file has returned once
  lines,                  \* lint_file: the lines read by the last call
  issues,                 \* lint_file: the issue list (the returned value)
  matched_lines,          \* lint_file: line number -> ids matched on it
  has_user_instruction,   \* lint_file: a USER line was seen
  has_named_stage,        \* lint_file: a named stage was seen
  multiple_run_commands,  \* lint_file: the current run of RUN lines
  first_call,             \* the content and the result of the first call
  os_name,                \* os.name of the host the optimizer runs on
  package_catalog,        \* DockerfileOptimizer.package_catalog
  optimized_content,      \* the Dockerfile text handed to the post-processor
  pins_written,           \* the number of pins in optimized_content
  post_pc,                \* "returned" once the post-processor has returned
  final_content,          \* the text the post-processor returned
  match_call,             \* the last call of _package_version_ok
  detected,               \* the last call of _detect_distro
  ai_response,            \* the lines of the answer of the AI service
  extracted,              \* the last call of _extract_dockerfile_content
  attempt_docker_builds,  \* DockerfileOptimizer.attempt_docker_builds
  docker_python_lib_available,  \* the docker library was imported
  client,                 \* DockerfileOptimizer.client, "None" or "client"
  docker_daemon_connected,      \* DockerfileOptimizer.docker_daemon_connected
  connect_attempts,       \* the number of calls of docker.from_env so far
  connect_failed,         \* an attempt to connect has failed
  ensure_call,            \* the last call of _ensure_docker_client
  image_info,             \* the last call of _get_image_info
  analysis,               \* the Analysis that analyse_dockerfile returned
  remote,                 \* the changes made to the GitHub repository
  pull_request            \* the last call that opens a pull request

linterVars ==
  <<rules_source, rules, dockerfile, on_disk, console, pc, lines, issues,
    matched_lines, has_user_instruction, has_named_stage,
    multiple_run_commands, first_call>>

optimizerVars ==
  <<os_name, package_catalog, optimized_content, pins_written, post_pc,
    final_content, match_call, detected>>

aiVars == <<ai_response, extracted>>

dockerVars ==
  <<attempt_docker_builds, docker_python_lib_available, client,
    docker_daemon_connected, connect_attempts, connect_failed, ensure_call,
    image_info>>

githubVars == <<analysis, remote, pull_request>>

serviceVars == <<aiVars, dockerVars, githubVars>>

vars == <<linterVars, optimizerVars, serviceVars>>

(***************************************************************************)
(* DockerfileLinter.lint_file                                              *)
(***************************************************************************)
\* str(n) for a line number
DecStr(n) ==
  LET d == <<"0", "1", "2", "3", "4", "5", "6", "7", "8", "9">>
  IN IF n < 10 THEN <<d[n + 1]>>
     ELSE <<d[(n \div 10) + 1], d[(n % 10) + 1]>>

\* LinterIssue(line_number, rule, line_content)
LinterIssue(line_number, rule, line_content) ==
  [line_number |-> line_number, rule |-> rule, line_content |-> line_content]

\* the issue of a closed run of RUN lines starting at line n
MultiRunIssue(rule, n) ==
  LinterIssue(n, rule,
    <<"M", "u", "l", "t", "i", "p", "l", "e", " ", "R", "U", "N", " ",
      "c", "o", "m", "m", "a", "n", "d", "s", " ", "f", "o", "u", "n", "d",
      " ", "s", "t", "a", "r", "t", "i", "n", "g", " ", "a", "t", " ",
      "l", "i", "n", "e", " ">> \o DecStr(n))

NoUserContent ==
  <<"N", "o", " ", "U", "S", "E", "R", " ", "i", "n", "s", "t", "r", "u",
    "c", "t", "i", "o", "n", " ", "f", "o", "u", "n", "d", " ", "i", "n",
    " ", "D", "o", "c", "k", "e", "r", "f", "i", "l", "e">>

NoStageContent ==
  <<"N", "o", " ", "n", "a", "m", "e", "d", " ", "s", "t", "a", "g", "e",
    " ", "(", "e", ".", "g", ".", ",", " ", "'", "A", "S", " ", "b", "u",
    "i", "l", "d", "e", "r", "'", ")", " ", "f", "o", "u", "n", "d", ".",
    " ", "M", "u", "l", "t", "i", "-", "s", "t", "a", "g", "e", " ", "b",
    "u", "i", "l", "d", " ", "r", "e", "c", "o", "m", "m", "e", "n", "d",
    "e", "d", ".">>

\* the regex_pattern texts of the catalogs
PatternSources ==
  {d.regex_pattern : d \in {FixtureRulesData[i] : i \in DOMAIN FixtureRulesData}
                       \cup {PatternRulesData[i] : i \in DOMAIN PatternRulesData}}

\* the pairs (pattern, line) with pattern.search(line.strip()) not None,
\* computed once for the lines of DockerfileLines
SearchTable ==
  UNION {{<<p, l>> : l \in {x \in DockerfileLines :
                               SearchIgnoreCase(Compile(p), Strip(x))}}
         : p \in PatternSources}

\* rule.regex_pattern.search(stripped_line), stripped_line = line.strip()
RuleMatches(rule, original_line) ==
  <<rule.regex_pattern, original_line>> \in SearchTable

\* per line: strip(), and the tests lint_file makes on the stripped line
\* (a table, computed once)
LineFacts ==
  <<>> @@ [l \in DockerfileLines |->
     LET stripped_line == Strip(l)
     IN [stripped_line |-> stripped_line,
         skip |-> stripped_line = <<>> \/ StartsWith(stripped_line, <<"#">>),
         run |-> StartsWith(Upper(stripped_line), <<"R", "U", "N">>),
         user |-> StartsWith(Upper(stripped_line), <<"U", "S", "E", "R">>),
         from |-> StartsWith(Upper(stripped_line), <<"F", "R", "O", "M">>),
         cd |-> Contains(stripped_line, <<"c", "d">>),
         named |-> MatchIgnoreCase(NamedStagePattern, stripped_line),
         content |-> RStripNewline(l)]]

\* a scan that starts from the flags the previous call left behind
StaleScanState ==
  [issues |-> <<>>,
   matched_lines |-> <<>>,
   has_user_instruction |-> has_user_instruction,
   has_named_stage |-> has_named_stage,
   multiple_run_commands |-> <<>>]

\* the values of the locals of lint_file when a call starts
InitScanState ==
  [issues |-> <<>>,
   matched_lines |-> <<>>,
   has_user_instruction |-> FALSE,
   has_named_stage |-> FALSE,
   multiple_run_commands |-> <<>>]

RECURSIVE FullContent(_)
\* full_content = ''.join(lines): computed by lint_file and never read
FullContent(ls) ==
  IF ls = <<>> THEN <<>> ELSE Head(ls) \o FullContent(Tail(ls))

\* pre-check: some line is FROM <image>[:tag] AS <name>
PreCheckNamedStage(ls) == \E i \in 1..Len(ls) : LineFacts[ls[i]].named


\* the closure of a run that reports a single RUN line as well
AnyRunIsReported(run) == Len(run) > 0

\* len(multiple_run_commands) > 1: the run that ends here is reported
RunIsReported(run) == Len(run) > 1

RECURSIVE RuleLoop(_, _, _, _, _)
\* for rule in self.rules: the per-line rule loop; acc = [issues, ids]
RuleLoop(rs, acc, named, line_number, original_line) ==
  IF rs = <<>> THEN acc
  ELSE
    LET rule == Head(rs)
        skip == \/ (rule.title = TitleMultiStage /\ named)
                \/ rule.id \in acc.ids
        hit  == ~skip /\ RuleMatches(rule, original_line)
        acc2 == IF hit
                THEN [issues |-> Append(acc.issues,
                                   LinterIssue(line_number, rule,
                                               LineFacts[original_line].content)),
                      ids |-> acc.ids \cup {rule.id}]
                ELSE acc
    IN RuleLoop(Tail(rs), acc2, named, line_number, original_line)

\* a variant that leaves the rule of the targeted issue unmarked
LeaveUnmarked(ids, rule) == ids

\* matched_lines[line_number].add(workdir_rule.id)
Consume(ids, rule) == ids \cup {rule.id}

\* the body of the line loop for one line
ScanLine(st, rs, line_number, original_line) ==
  LET facts == LineFacts[original_line]
      stripped_line == facts.stripped_line
  IN
  IF facts.skip THEN st
  ELSE
    LET isRun == facts.run
        run == st.multiple_run_commands
        combine_runs_rule == RuleByTitle(rs, TitleCombine)
        issues1 ==
          IF ~isRun /\ RunIsReported(run) /\ combine_runs_rule # NoRule
          THEN Append(st.issues, MultiRunIssue(combine_runs_rule, run[1][1]))
          ELSE st.issues
        run1 == IF isRun THEN Append(run, <<line_number, stripped_line>>)
                ELSE <<>>
        user1 == st.has_user_instruction \/ facts.user
        ids0 == IF line_number \in DOMAIN st.matched_lines
                THEN st.matched_lines[line_number] ELSE {}
        workdir_rule == RuleByTitle(rs, TitleWorkdir)
        cd == /\ facts.cd
              /\ isRun
              /\ workdir_rule # NoRule
              /\ workdir_rule.id \notin ids0
        issues2 == IF cd
                   THEN Append(issues1,
                          LinterIssue(line_number, workdir_rule,
                                      LineFacts[original_line].content))
                   ELSE issues1
        ids1 == IF cd THEN Consume(ids0, workdir_rule) ELSE ids0
        acc == RuleLoop(rs, [issues |-> issues2, ids |-> ids1],
                        st.has_named_stage, line_number, original_line)
    IN [issues |-> acc.issues,
        matched_lines |->
          [n \in DOMAIN st.matched_lines \cup {line_number} |->
             IF n = line_number THEN acc.ids ELSE st.matched_lines[n]],
        has_user_instruction |-> user1,
        has_named_stage |-> st.has_named_stage,
        multiple_run_commands |-> run1]

RECURSIVE ScanLines(_, _, _, _)
\* for line_number, original_line in enumerate(lines, start=1)
ScanLines(st, rs, ls, line_number) ==
  IF line_number > Len(ls) THEN st
  ELSE ScanLines(ScanLine(st, rs, line_number, ls[line_number]),
                 rs, ls, line_number + 1)

\* the line of the last FROM instruction, 1 when there is none: the line a
\* scan that overwrites first_from_line at every FROM would report
LastFromLine(ls) ==
  LET isFrom(i) == LineFacts[ls[i]].from
  IN IF \E i \in 1..Len(ls) : isFrom(i)
     THEN CHOOSE i \in 1..Len(ls) :
            isFrom(i) /\ \A j \in (i + 1)..Len(ls) : ~isFrom(j)
     ELSE 1

\* the line the missing-stage issue is reported on
FirstFromLine(ls) ==
  LET isFrom(i) == LineFacts[ls[i]].from
  IN IF \E i \in 1..Len(ls) : isFrom(i)
     THEN CHOOSE i \in 1..Len(ls) :
            isFrom(i) /\ \A j \in 1..(i - 1) : ~isFrom(j)
     ELSE 1

\* the line number the missing-USER issue is reported on
UserIssueLine(ls) == IF Len(ls) - 1 > 0 THEN Len(ls) - 1 ELSE 0

\* the checks after the line loop, in the order of the code: missing USER,
\* missing named stage, then the closure of a run of RUN lines still open
GlobalChecks(st, rs, ls) ==
  LET user_rule == RuleByTitle(rs, TitleUser)
      issues1 ==
        IF ~st.has_user_instruction /\ user_rule # NoRule
        THEN Append(st.issues,
               LinterIssue(UserIssueLine(ls), user_rule, NoUserContent))
        ELSE st.issues
      multistage_rule == RuleByTitle(rs, TitleMultiStage)
      issues2 ==
        IF ~st.has_named_stage /\ multistage_rule # NoRule
        THEN Append(issues1,
               LinterIssue(FirstFromLine(ls), multistage_rule, NoStageContent))
        ELSE issues1
      run == st.multiple_run_commands
      combine_runs_rule == RuleByTitle(rs, TitleCombine)
      issues3 ==
        IF RunIsReported(run) /\ combine_runs_rule # NoRule
        THEN Append(issues2, MultiRunIssue(combine_runs_rule, run[1][1]))
        ELSE issues2
  IN [st EXCEPT !.issues = issues3]

\* the locals of lint_file when it returns, for rules rs and file lines ls
LintScan(rs, ls) ==
  LET st0 == InitScanState
      st1 == [st0 EXCEPT !.has_named_stage = @ \/ PreCheckNamedStage(ls)]
  IN GlobalChecks(ScanLines(st1, rs, ls, 1), rs, ls)

(***************************************************************************)
(* fnmatch.fnmatch (Python standard library), as called by                 *)
(* _package_version_ok.                                                    *)
(***************************************************************************)
\* the operating systems the tool runs on (os.name)
OsNames == {"posix", "nt"}

\* os.path.normcase: the identity on POSIX; on Windows lower case, and
\* backslashes for slashes
NormCase(os, s) ==
  IF os = "nt"
  THEN [i \in 1..Len(s) |-> IF s[i] = "/" THEN "\\" ELSE ToLower(s[i])]
  ELSE s

\* is stuff[k] the lower end of a range x-y of a bracket class
IsRange(stuff, k) == k + 2 <= Len(stuff) /\ stuff[k + 1] = "-"

RECURSIVE BracketMembers(_, _)
\* the characters of the bracket class with members stuff (without a
\* leading !), read from position k: x-y is a range, empty when x > y
BracketMembers(stuff, k) ==
  IF k > Len(stuff) THEN {}
  ELSE (IF IsRange(stuff, k)
        THEN {c \in AllChars \ WhiteSpace :
                Ord(stuff[k]) <= Ord(c) /\ Ord(c) <= Ord(stuff[k + 2])}
        ELSE {stuff[k]})
       \cup BracketMembers(stuff, IF IsRange(stuff, k) THEN k + 3 ELSE k + 1)

\* the position of the ] closing the bracket opened at pat[i], 0 if none:
\* a ] right after the [ or after [! is a member, not the closing one
BracketClose(pat, i) ==
  LET j1 == IF i + 1 <= Len(pat) /\ pat[i + 1] = "!" THEN i + 2 ELSE i + 1
      j2 == IF j1 <= Len(pat) /\ pat[j1] = "]" THEN j1 + 1 ELSE j1
  IN IF \E j \in j2..Len(pat) : pat[j] = "]"
     THEN CHOOSE j \in j2..Len(pat) :
            pat[j] = "]" /\ \A h \in j2..(j - 1) : pat[h] # "]"
     ELSE 0

\* the characters of the bracket class opened at pat[i] and closed at pat[j]
BracketClass(pat, i, j) ==
  IF pat[i + 1] = "!"
  THEN AllChars \ BracketMembers(SubSeq(pat, i + 2, j - 1), 1)
  ELSE BracketMembers(SubSeq(pat, i + 1, j - 1), 1)

\* what pat[i] translates to; j is the position of the ] that closes a
\* bracket opened at pat[i], 0 when pat[i] opens none (it is then literal)
FnItem(pat, i, j) ==
  CASE pat[i] = "*" -> Star(AllChars)
    [] pat[i] = "?" -> One(AllChars)
    [] pat[i] = "[" /\ j # 0 -> One(BracketClass(pat, i, j))
    [] OTHER -> One({pat[i]})

\* the position at which the translation goes on after pat[i]
FnNext(pat, i, j) == IF pat[i] = "[" /\ j # 0 THEN j + 1 ELSE i + 1

RECURSIVE FnTranslate(_, _)
\* fnmatch.translate(pat), from position i
FnTranslate(pat, i) ==
  IF i > Len(pat) THEN <<>>
  ELSE <<FnItem(pat, i, BracketClose(pat, i))>>
       \o FnTranslate(pat, FnNext(pat, i, BracketClose(pat, i)))

\* fnmatch.fnmatchcase(name, pat): the whole of name matches
FnmatchCase(name, pat) ==
  (Len(name) + 1) \in Ends(FnTranslate(pat, 1), name, {1})

\* fnmatch.fnmatch(name, pat)
Fnmatch(os, name, pat) == FnmatchCase(NormCase(os, name), NormCase(os, pat))

(***************************************************************************)
(* The package catalog and DockerfileOptimizer._package_version_ok.        *)
(* A YAML mapping is a sequence of entries [k, t, v] with distinct keys k: *)
(* t is the type of the value ("list", "dict", "none" for null or "str"    *)
(* for a scalar) and v its content: the entries of a distro mapping, the   *)
(* strings of a list of versions, the list under the key "versions" of a   *)
(* package mapping (empty when the key is absent); it is empty for null    *)
(* and for a scalar, whose content the code never reads.                   *)
(***************************************************************************)
\* class VersionMatch
VersionMatch == {"NO_MATCH", "EXACT_STRING_MATCH", "WILDCARD_PATTERN_MATCH"}

\* a variant of the lookup that ignores the key and returns the first
\* entry of the mapping
GetAny(mapping, key) ==
  IF mapping # <<>> THEN mapping[1] ELSE [k |-> key, t |-> "dict", v |-> <<>>]

\* mapping.get(key, {}) : the entry of key, an empty mapping when absent
Get(mapping, key) ==
  IF \E i \in 1..Len(mapping) : mapping[i].k = key
  THEN mapping[CHOOSE i \in 1..Len(mapping) : mapping[i].k = key]
  ELSE [k |-> key, t |-> "dict", v |-> <<>>]

\* "*" in s or "?" in s or "[" in s
HasWildcard(s) == \E i \in 1..Len(s) : s[i] \in {"*", "?", "["}

RECURSIVE PatternLoop(_, _, _)
\* for pattern in versions_patterns: the first pattern that fnmatch accepts
\* and that holds a wildcard or equals ver returns; the others are passed
PatternLoop(os, ver, versions_patterns) ==
  IF versions_patterns = <<>> THEN "NO_MATCH"
  ELSE IF Fnmatch(os, ver, Head(versions_patterns))
          /\ (HasWildcard(Head(versions_patterns))
              \/ ver = Head(versions_patterns))
       THEN IF HasWildcard(Head(versions_patterns))
            THEN "WILDCARD_PATTERN_MATCH"
            ELSE "EXACT_STRING_MATCH"
       ELSE PatternLoop(os, ver, Tail(versions_patterns))

\* a variant of the membership test that accepts a version which an
\* allowed version starts with
PrefixInList(ver, config) ==
  \E i \in 1..Len(config) : StartsWith(config[i], ver)

\* ver in pkg_specific_config
InList(ver, config) == \E i \in 1..Len(config) : config[i] = ver

\* self._package_version_ok(distro, pkg, ver), on a host os and with a
\* catalog; "AttributeError" when the distro entry is null or a scalar,
\* which have no get
PackageVersionOk(os, catalog, distro, pkg, ver) ==
  LET info == Get(catalog, distro)
      pkg_specific_config == Get(info.v, pkg)
  IN CASE info.t \in {"none", "str"} -> "AttributeError"
       [] info.t = "list" -> "NO_MATCH"
       [] pkg_specific_config.t = "none" \/ pkg_specific_config.v = <<>> ->
            "NO_MATCH"
       [] pkg_specific_config.t = "str" -> "NO_MATCH"
       [] pkg_specific_config.t = "list" ->
            IF InList(ver, pkg_specific_config.v)
            THEN IF HasWildcard(ver)
                 THEN "WILDCARD_PATTERN_MATCH"
                 ELSE "EXACT_STRING_MATCH"
            ELSE "NO_MATCH"
       [] OTHER -> PatternLoop(os, ver, pkg_specific_config.v)

(***************************************************************************)
(* DockerfileOptimizer._detect_distro                                      *)
(***************************************************************************)
\* the characters at which str.splitlines() breaks
LineBreaks == {"\n", "\r", "\f"}

RECURSIVE SplitLines(_)
\* str.splitlines()
SplitLines(s) ==
  IF s = <<>> THEN <<>>
  ELSE IF \A i \in 1..Len(s) : s[i] \notin LineBreaks THEN <<s>>
  ELSE LET b == CHOOSE i \in 1..Len(s) :
                  s[i] \in LineBreaks
                  /\ \A j \in 1..(i - 1) : s[j] \notin LineBreaks
           next == IF s[b] = "\r" /\ b < Len(s) /\ s[b + 1] = "\n"
                   THEN b + 2 ELSE b + 1
       IN <<SubSeq(s, 1, b - 1)>> \o SplitLines(SubSeq(s, next, Len(s)))

RECURSIVE Split(_)
\* str.split()
Split(s) ==
  LET t == LStripSet(s, WhiteSpace)
      e == IF \E i \in 1..Len(t) : t[i] \in WhiteSpace
           THEN CHOOSE i \in 1..Len(t) :
                  t[i] \in WhiteSpace
                  /\ \A j \in 1..(i - 1) : t[j] \notin WhiteSpace
           ELSE Len(t) + 1
  IN IF t = <<>> THEN <<>>
     ELSE <<SubSeq(t, 1, e - 1)>> \o Split(SubSeq(t, e, Len(t)))

RECURSIVE Join(_, _)
\* sep.join(parts)
Join(parts, sep) ==
  IF parts = <<>> THEN <<>>
  ELSE IF Len(parts) = 1 THEN parts[1]
  ELSE parts[1] \o sep \o Join(Tail(parts), sep)

Alpine == <<"a", "l", "p", "i", "n", "e">>

Ubuntu == <<"u", "b", "u", "n", "t", "u">>

Debian == <<"d", "e", "b", "i", "a", "n">>

\* the value that stands for an IndexError raised by line.split()[1]
IndexError == <<"IndexError">>

\* a variant of the tests on img that looks for ubuntu before alpine
UbuntuFirstIn(img) ==
  IF Contains(img, Ubuntu) THEN Ubuntu
  ELSE IF Contains(img, Alpine) THEN Alpine
  ELSE IF Contains(img, Debian) THEN Debian
  ELSE <<>>

\* the tests on img, in their order: the distro that is returned, <<>> when
\* none is and the loop goes on
KeywordIn(img) ==
  IF Contains(img, Alpine) THEN Alpine
  ELSE IF Contains(img, Ubuntu) THEN Ubuntu
  ELSE IF Contains(img, Debian) THEN Debian
  ELSE <<>>

RECURSIVE DetectDistroLoop(_)
\* the loop of _detect_distro over the lines ls still to read
DetectDistroLoop(ls) ==
  IF ls = <<>> THEN Debian
  ELSE LET line == Head(ls)
           img == Lower(Split(line)[2])
       IN IF ~StartsWith(Strip(line), <<"F", "R", "O", "M">>)
          THEN DetectDistroLoop(Tail(ls))
          ELSE IF Len(Split(line)) < 2 THEN IndexError
          ELSE IF KeywordIn(img) # <<>> THEN KeywordIn(img)
          ELSE DetectDistroLoop(Tail(ls))

\* self._detect_distro(content)
DetectDistro(content) == DetectDistroLoop(SplitLines(content))

(***************************************************************************)
(* DockerfileOptimizer._post_process_optimized_content                     *)
(***************************************************************************)
\* [\w\.\-]
PkgChars == WordChars \cup {".", "-"}

\* [\d:\.\+\~\-\w]
VerChars == WordChars \cup {":", ".", "+", "~", "-"}

\* version_pin_regex: ([\w\.\-]+(?:\\[[\w\.\-]+\\])?)=([\d:\.\+\~\-\w]+)
VersionPinRegex ==
  <<Plus(PkgChars),
    Opt(<<One({"\\"}), Plus(PkgChars \cup {"["}), One({"\\"}), One({"]"})>>),
    One({"="}),
    Plus(VerChars)>>

\* apt_install_regex: apt-get\s+(?:.*\s+)?install\b, re.IGNORECASE
AptInstallRegex ==
  Lit(<<"a", "p", "t", "-", "g", "e", "t">>)
  \o <<Plus(WhiteSpace), Opt(<<Star(AnyChar), Plus(WhiteSpace)>>)>>
  \o Lit(<<"i", "n", "s", "t", "a", "l", "l">>)
  \o <<WordBoundary>>

\* the largest element of a non-empty set of positions
MaxOf(P) == CHOOSE p \in P : \A q \in P : q <= p

RECURSIVE FindAll(_, _)
\* version_pin_regex.findall(s), searching from position pos: the (pkg, ver)
\* groups of the leftmost matches, none overlapping another.  Neither group
\* can hold "=", so a match from a given start is unique up to the greedy
\* length of ver, and the groups are the text before and after its "=".
FindAll(s, pos) ==
  LET starts == {p \in pos..Len(s) : Ends(VersionPinRegex, s, {p}) # {}}
      start == CHOOSE p \in starts : \A q \in starts : p <= q
      end == MaxOf(Ends(VersionPinRegex, s, {start}))
      eq == CHOOSE i \in start..Len(s) :
              s[i] = "=" /\ \A j \in start..(i - 1) : s[j] # "="
  IN IF starts = {} THEN <<>>
     ELSE <<[pkg |-> SubSeq(s, start, eq - 1),
             ver |-> SubSeq(s, eq + 1, end - 1)]>>
          \o FindAll(s, end)

RECURSIVE ReSubFrom(_, _, _, _)
\* re.sub(pattern, repl, s) from position i of s: every leftmost match of
\* the pattern, none overlapping another, replaced by repl
ReSubFrom(pattern, repl, s, i) ==
  LET starts == {p \in i..Len(s) : Ends(pattern, s, {p}) \ {p} # {}}
      start == CHOOSE p \in starts : \A q \in starts : p <= q
      end == MaxOf(Ends(pattern, s, {start}))
  IN IF starts = {} THEN SubSeq(s, i, Len(s))
     ELSE SubSeq(s, i, start - 1) \o repl \o ReSubFrom(pattern, repl, s, end)

\* re.sub(fr"\b{re.escape(pkg)}={re.escape(ver)}\b", pkg, line)
StripPin(pkg, ver, line) ==
  ReSubFrom(<<WordBoundary>> \o Lit(pkg \o <<"=">> \o ver) \o <<WordBoundary>>,
            pkg, line, 1)

\* the branch taken for the pin (pkg, ver) classified match_type: acc holds
\* temp_processing_line, modified_in_this_line, and whether
\* _package_version_ok has raised
PinStep(acc, pkg, ver, match_type) ==
  CASE match_type = "AttributeError" -> [acc EXCEPT !.raised = TRUE]
    [] match_type = "EXACT_STRING_MATCH" -> acc
    [] OTHER ->
         [line |-> StripPin(pkg, ver, acc.line),
          modified |-> TRUE, raised |-> FALSE]

RECURSIVE PinLoop(_, _, _, _, _)
\* for pkg, ver in pins_found
PinLoop(os, catalog, distro, pins_found, acc) ==
  IF pins_found = <<>> \/ acc.raised THEN acc
  ELSE PinLoop(os, catalog, distro, Tail(pins_found),
               PinStep(acc, Head(pins_found).pkg, Head(pins_found).ver,
                       PackageVersionOk(os, catalog, distro,
                                        Head(pins_found).pkg,
                                        Head(pins_found).ver)))

\* one turn of the loop over install_command_lines
CleanLine(os, catalog, distro, l_content) ==
  PinLoop(os, catalog, distro, FindAll(l_content, 1),
          [line |-> l_content, modified |-> FALSE, raised |-> FALSE])

\* "Pins modified by post-processor"
MarkerStem ==
  <<"P", "i", "n", "s", " ", "m", "o", "d", "i", "f", "i", "e", "d", " ",
    "b", "y", " ", "p", "o", "s", "t", "-", "p", "r", "o", "c", "e", "s",
    "s", "o", "r">>

\* "Pins modified by post-processor for compatibility"
MarkerText ==
  MarkerStem \o <<" ", "f", "o", "r", " ", "c", "o", "m", "p", "a", "t",
                  "i", "b", "i", "l", "i", "t", "y">>

\* the last line of a modified block, with the comment that marks it
MarkLastLine(last_line_content) ==
  LET comment_start_index == Find(last_line_content, <<" ", "#", " ">>)
      main_part ==
        RStrip(SubSeq(last_line_content, 1, comment_start_index - 1))
      existing_comment ==
        SubSeq(last_line_content, comment_start_index + 3,
               Len(last_line_content))
  IN IF Contains(last_line_content, <<" ", "#", " ">>)
     THEN IF ~Contains(existing_comment, MarkerStem)
          THEN main_part \o <<" ", "#", " ">> \o existing_comment
               \o <<";", " ">> \o MarkerText
          ELSE last_line_content
     ELSE IF ~Contains(last_line_content, <<"#", " ">> \o MarkerText)
          THEN RStrip(last_line_content) \o <<" ", "#", " ">> \o MarkerText
          ELSE last_line_content

\* line.strip().startswith("RUN ")
StartsRunBlock(line) == StartsWith(Strip(line), <<"R", "U", "N", " ">>)

RECURSIVE BlockEnd(_, _)
\* current_line_index when the inner while loop ends: the index of the last
\* line of the block that starts at, or continues through, line i
BlockEnd(ls, i) ==
  IF EndsWith(RStrip(ls[i]), <<"\\">>) /\ i + 1 <= Len(ls)
  THEN BlockEnd(ls, i + 1)
  ELSE i

\* apt_install_regex.search(block_text)
IsInstallBlock(install_command_lines) ==
  SearchIgnoreCase(AptInstallRegex, Join(install_command_lines, <<"\n">>))

\* cleaned_command_lines when the loop over install_command_lines has left
\* cleaned (a line, modified_in_this_line and raised for each line): the
\* last line is marked if block_modified
MarkBlock(cleaned) ==
  [lines |->
     [i \in 1..Len(cleaned) |->
        IF i = Len(cleaned) /\ \E h \in 1..Len(cleaned) : cleaned[h].modified
        THEN MarkLastLine(cleaned[i].line)
        ELSE cleaned[i].line],
   raised |-> \E i \in 1..Len(cleaned) : cleaned[i].raised]

\* cleaned_command_lines of a block that matches apt_install_regex, and
\* whether _package_version_ok has raised
CleanBlock(os, catalog, distro, install_command_lines) ==
  MarkBlock([i \in 1..Len(install_command_lines) |->
               CleanLine(os, catalog, distro, install_command_lines[i])])

\* what the turn of the while loop at line i appends to cleaned_lines;
\* current_line_index is the last line of the block that starts at line i
LoopTurn(os, catalog, distro, ls, i, current_line_index) ==
  IF ~StartsRunBlock(ls[i])
  THEN [lines |-> <<ls[i]>>, raised |-> FALSE]
  ELSE IF IsInstallBlock(SubSeq(ls, i, current_line_index))
       THEN CleanBlock(os, catalog, distro,
                       SubSeq(ls, i, current_line_index))
       ELSE [lines |-> SubSeq(ls, i, current_line_index), raised |-> FALSE]

\* i after the turn of the while loop at line i
NextIndex(ls, i, current_line_index) ==
  IF StartsRunBlock(ls[i]) THEN current_line_index + 1 ELSE i + 1

\* cleaned_lines.extend: the turn own, then the turns rest unless own raised
Extend(own, rest) ==
  IF own.raised THEN own
  ELSE [lines |-> own.lines \o rest.lines, raised |-> rest.raised]

RECURSIVE ProcessLines(_, _, _, _, _)
\* the while loop over lines, from index i: cleaned_lines, and whether
\* _package_version_ok has raised
ProcessLines(os, catalog, distro, ls, i) ==
  IF i > Len(ls) THEN [lines |-> <<>>, raised |-> FALSE]
  ELSE Extend(LoopTurn(os, catalog, distro, ls, i, BlockEnd(ls, i)),
              ProcessLines(os, catalog, distro, ls,
                           NextIndex(ls, i, BlockEnd(ls, i))))

\* the value that stands for an AttributeError raised by info.get
AttributeError == <<"AttributeError">>

\* what the call returns or raises once distro and cleaned_lines are known
Return(distro, cleaned) ==
  IF distro = IndexError THEN IndexError
  ELSE IF cleaned.raised THEN AttributeError
  ELSE Join(cleaned.lines, <<"\n">>)

\* self._post_process_optimized_content(content), on a host os and with a
\* catalog: final_content, or the exception raised
PostProcess(os, catalog, content) ==
  Return(DetectDistro(content),
         ProcessLines(os, catalog, DetectDistro(content),
                      SplitLines(content), 1))

(***************************************************************************)
(* DockerfileOptimizer._extract_dockerfile_content                         *)
(***************************************************************************)
\* the character U+0060 of the code fences, which a string of this
\* language cannot hold
Backtick == "U+0060"

\* the fence that ends a code block
Fence == <<Backtick, Backtick, Backtick>>

\* the fence that starts the block of the Dockerfile
DockerfileFence ==
  Fence \o <<"d", "o", "c", "k", "e", "r", "f", "i", "l", "e">>

\* "### Explanation of Changes:"
ExplanationHeader ==
  <<"#", "#", "#", " ", "E", "x", "p", "l", "a", "n", "a", "t", "i", "o",
    "n", " ", "o", "f", " ", "C", "h", "a", "n", "g", "e", "s", ":">>

\* is_list_item: the stripped line starts with -, * or +, or with a digit
\* followed by . or )
IsListItem(stripped) ==
  \/ stripped # <<>> /\ stripped[1] \in {"-", "*", "+"}
  \/ /\ Len(stripped) > 1
     /\ stripped[1] \in Digits
     /\ stripped[2] \in {".", ")"}

\* the continuation test of the loop: the last line kept is not blank and
\* the stripped line starts with two spaces
IsContinuation(explanation_lines, stripped) ==
  /\ explanation_lines # <<>>
  /\ Strip(explanation_lines[Len(explanation_lines)]) # <<>>
  /\ StartsWith(stripped, <<" ", " ">>)

\* the locals of _extract_dockerfile_content when the loop starts
InitExtractState ==
  [dockerfile_content |-> <<>>, explanation_lines |-> <<>>,
   in_dockerfile |-> FALSE, in_explanation |-> FALSE]

\* the body of the loop for one line of the answer
ExtractLine(st, line) ==
  LET stripped == Strip(line)
  IN CASE StartsWith(stripped, DockerfileFence) ->
            [st EXCEPT !.in_dockerfile = TRUE, !.in_explanation = FALSE]
       [] stripped = Fence /\ st.in_dockerfile ->
            [st EXCEPT !.in_dockerfile = FALSE]
       [] StartsWith(stripped, ExplanationHeader) ->
            [st EXCEPT !.in_explanation = TRUE, !.in_dockerfile = FALSE]
       [] st.in_dockerfile ->
            [st EXCEPT !.dockerfile_content = Append(@, line)]
       [] st.in_explanation ->
            IF stripped = <<>>
                 \/ IsListItem(stripped)
                 \/ IsContinuation(st.explanation_lines, stripped)
            THEN [st EXCEPT !.explanation_lines = Append(@, line)]
            ELSE [st EXCEPT !.in_explanation = FALSE]
       [] OTHER -> st

RECURSIVE ExtractLoop(_, _)
\* for line in ai_response
ExtractLoop(st, ai) ==
  IF ai = <<>> THEN st
  ELSE ExtractLoop(ExtractLine(st, Head(ai)), Tail(ai))

RECURSIVE SplitNewline(_)
\* str.split(newline)
SplitNewline(s) ==
  IF \A i \in 1..Len(s) : s[i] # "\n" THEN <<s>>
  ELSE LET b == CHOOSE i \in 1..Len(s) :
                  s[i] = "\n" /\ \A j \in 1..(i - 1) : s[j] # "\n"
       IN <<SubSeq(s, 1, b - 1)>> \o SplitNewline(SubSeq(s, b + 1, Len(s)))

RECURSIVE KeepDuplicates(_, _)
\* a variant of the clean-up that drops the blank lines only
KeepDuplicates(ls, seen) ==
  IF ls = <<>> THEN <<>>
  ELSE IF Strip(Head(ls)) # <<>>
       THEN <<Head(ls)>> \o KeepDuplicates(Tail(ls), seen)
       ELSE KeepDuplicates(Tail(ls), seen)

RECURSIVE Deduplicate(_, _)
\* the clean-up loop: a line is kept when its stripped text is not empty
\* and was not seen before
Deduplicate(ls, seen) ==
  IF ls = <<>> THEN <<>>
  ELSE LET stripped == Strip(Head(ls))
       IN IF stripped # <<>> /\ stripped \notin seen
          THEN <<Head(ls)>> \o Deduplicate(Tail(ls), seen \cup {stripped})
          ELSE Deduplicate(Tail(ls), seen)

\* self._extract_dockerfile_content(ai_response): the pair returned
ExtractDockerfileContent(ai) ==
  LET st == ExtractLoop(InitExtractState, ai)
      explanation == Strip(Join(st.explanation_lines, <<"\n">>))
      deduped == Deduplicate(SplitNewline(explanation), {})
  IN [dockerfile_content |-> Strip(Join(st.dockerfile_content, <<"\n">>)),
      explanation |-> Join(deduped, <<"\n">>)]

(***************************************************************************)
(* DockerfileOptimizer._ensure_docker_client and _get_image_info           *)
(***************************************************************************)
\* what an attempt to connect meets: a daemon that answers the ping, a ping
\* that returns False, a docker.errors.DockerException, another exception
ConnectOutcomes == {"connected", "ping_false", "DockerException", "Exception"}

\* the attempt to connect of _ensure_docker_client: docker.from_env and
\* ping; every failure resets the client to None
Connect(outcome) ==
  IF outcome = "connected"
  THEN [client |-> "client", docker_daemon_connected |-> TRUE,
        returned |-> TRUE, attempted |-> TRUE]
  ELSE [client |-> "None", docker_daemon_connected |-> FALSE,
        returned |-> FALSE, attempted |-> TRUE]

\* self._ensure_docker_client(): the fields it leaves, the value returned,
\* and whether docker.from_env was called
EnsureDockerClient(builds, lib, cl, connected, outcome) ==
  LET skip == [client |-> cl, docker_daemon_connected |-> connected,
               returned |-> FALSE, attempted |-> FALSE]
  IN CASE ~builds -> skip
       [] ~lib -> skip
       [] cl # "None" /\ connected -> [skip EXCEPT !.returned = TRUE]
       [] cl # "None" /\ ~connected -> skip
       [] OTHER -> Connect(outcome)

\* what self.client.images.build meets: an image, a docker.errors.BuildError,
\* a time-out or another docker.errors.DockerException, another exception
BuildOutcomes == {"built", "BuildError", "timeout", "APIError", "Exception"}

\* the sizes and the layer counts of the images built
ImageSizes == {1, 2}

\* self._get_image_info(path, tag) once the client is ensured: the value
\* returned; the branch of BuildError prints and returns nothing
GetImageInfo(ensured, build, size, layer_count) ==
  CASE ~ensured ->
         [returned |-> "pair", size |-> 0, layer_count |-> 0]
    [] build = "built" ->
         [returned |-> "pair", size |-> size, layer_count |-> layer_count]
    [] build = "BuildError" ->
         [returned |-> "None", size |-> 0, layer_count |-> 0]
    [] OTHER ->
         [returned |-> "pair", size |-> 0, layer_count |-> 0]

(***************************************************************************)
(* Actions of the linter.                                                  *)
(***************************************************************************)
\* longest Dockerfile, in lines, over all the lines of DockerfileLines
MaxLines == 3

\* longest Dockerfile, in lines, over the lines of RunLines
MaxRunLines == 5

\* longest Dockerfile, in lines, over the lines of RepeatLines
MaxRepeatLines == 2

\* the lines of the Dockerfiles that exercise the runs of RUN lines
RunLines == {LineRun, LineRunRun, LineCopy, LineComment}

\* the lines of the Dockerfiles that are linted repeatedly
RepeatLines == {LineUserRoot, LineFromNamed, LineRunCd}

\* no call of lint_file has returned yet
NoCall ==
  [called |-> FALSE, rules |-> <<>>, lines |-> <<>>, issues |-> <<>>,
   others |-> FALSE]

\* no call of _detect_distro has returned yet
NoDetectCall == [called |-> FALSE, distro |-> <<>>]

\* no call of _extract_dockerfile_content has returned yet
NoExtractCall ==
  [called |-> FALSE, dockerfile_content |-> <<>>, explanation |-> <<>>]

\* no call of _ensure_docker_client has returned yet
NoEnsureCall ==
  [called |-> FALSE, builds |-> FALSE, failed_before |-> FALSE,
   attempted |-> FALSE, returned |-> FALSE]

\* no call of _get_image_info has returned yet
NoImageCall ==
  [called |-> FALSE, ensured |-> FALSE, build |-> "none",
   returned |-> "None", size |-> 0, layer_count |-> 0]

\* DockerfileOptimizer(): no client, and builds are not attempted
DockerIdle ==
  /\ attempt_docker_builds = FALSE
  /\ client = "None"
  /\ docker_daemon_connected = FALSE
  /\ connect_attempts = 0
  /\ connect_failed = FALSE
  /\ ensure_call = NoEnsureCall
  /\ image_info = NoImageCall

\* the value None
None == <<"None">>

\* no Analysis has been returned yet
NoAnalysis ==
  [made |-> FALSE, suggestions |-> <<>>, optimized_content |-> None]

\* no call that opens a pull request has ended yet
NoPullRequest == [called |-> FALSE, path |-> "none", outcome |-> "none"]

\* nothing analysed, and nothing done to the repository on GitHub
GithubIdle ==
  /\ analysis = NoAnalysis
  /\ remote = <<>>
  /\ pull_request = NoPullRequest

\* no answer of the AI service yet, and nothing extracted; the docker
\* library is installed
ServicesIdle ==
  /\ ai_response = <<>>
  /\ extracted = NoExtractCall
  /\ docker_python_lib_available = TRUE
  /\ DockerIdle
  /\ GithubIdle

\* no call of _package_version_ok has returned yet
NoMatchCall ==
  [called |-> FALSE, distro |-> <<>>, pkg |-> <<>>, ver |-> <<>>,
   match_type |-> "NO_MATCH"]

\* an optimizer on a POSIX host with an empty catalog, not yet called
OptimizerIdle ==
  /\ os_name = "posix"
  /\ package_catalog = <<>>
  /\ optimized_content = <<>>
  /\ pins_written = 0
  /\ post_pc = "idle"
  /\ final_content = <<>>
  /\ match_call = NoMatchCall
  /\ detected = NoDetectCall
  /\ ServicesIdle

\* DockerfileLinter(rules_path): a linter over one of the catalogs, and an
\* empty Dockerfile
InitLinter ==
  /\ rules_source \in LoadableRulesFiles
  /\ rules = LoadRulesFrom(rules_source).rules
  /\ console = LoadRulesFrom(rules_source).printed
  /\ dockerfile = <<>>
  /\ on_disk = TRUE
  /\ pc = "constructed"
  /\ lines = <<>>
  /\ issues = <<>>
  /\ matched_lines = <<>>
  /\ has_user_instruction = FALSE
  /\ has_named_stage = FALSE
  /\ multiple_run_commands = <<>>
  /\ first_call = NoCall
  /\ OptimizerIdle

\* what the environment leaves alone when it changes the Dockerfile
scanVars ==
  <<rules_source, rules, console, pc, lines, issues, matched_lines,
    has_user_instruction, has_named_stage, multiple_run_commands,
    first_call>>

\* the environment appends a line to a Dockerfile of fewer than max lines
AppendLine(l, max) ==
  /\ on_disk
  /\ Len(dockerfile) < max
  /\ dockerfile' = Append(dockerfile, l)
  /\ UNCHANGED <<on_disk, scanVars>>
  /\ UNCHANGED <<optimizerVars, serviceVars>>

\* the environment truncates the Dockerfile
ClearFile ==
  /\ dockerfile # <<>>
  /\ dockerfile' = <<>>
  /\ UNCHANGED <<on_disk, scanVars>>
  /\ UNCHANGED <<optimizerVars, serviceVars>>

\* the environment removes the Dockerfile
RemoveFile ==
  /\ on_disk
  /\ on_disk' = FALSE
  /\ dockerfile' = <<>>
  /\ UNCHANGED scanVars
  /\ UNCHANGED <<optimizerVars, serviceVars>>

\* the environment creates the Dockerfile anew, empty
CreateFile ==
  /\ ~on_disk
  /\ on_disk' = TRUE
  /\ UNCHANGED <<dockerfile, scanVars>>
  /\ UNCHANGED <<optimizerVars, serviceVars>>

\* a variant that reads a missing Dockerfile as an empty one
MissingAsEmpty == LintScan(rules, <<>>)

\* except FileNotFoundError: the locals are as they were initialised and an
\* empty list is returned
FileNotFound == InitScanState

\* linter.lint_file(path) on the Dockerfile as it is on disk; when there is
\* none, open raises FileNotFoundError, which is caught: the call prints and
\* returns an empty list
LintStep ==
  LET st == IF on_disk
            THEN LintScan(rules, dockerfile)
            ELSE FileNotFound
  IN /\ pc \in {"constructed", "returned"}
     /\ console' =
          IF on_disk THEN console ELSE Append(console, DockerfileNotFound)
     /\ lines' = dockerfile
     /\ issues' = st.issues
     /\ matched_lines' = st.matched_lines
     /\ has_user_instruction' = st.has_user_instruction
     /\ has_named_stage' = st.has_named_stage
     /\ multiple_run_commands' = st.multiple_run_commands
     /\ pc' = "returned"
     /\ UNCHANGED <<rules_source, rules, dockerfile, on_disk>>

\* linter.lint_file(path) called on its own
LintCall == LintStep /\ UNCHANGED <<optimizerVars, serviceVars>>

\* a call of lint_file
LintFile == LintCall /\ UNCHANGED first_call

\* a call of lint_file; the catalog, the content and the result of the
\* first call are kept, and whether a later call read another content
LintFileObserved ==
  /\ LintCall
  /\ first_call' =
       IF first_call.called
       THEN [first_call EXCEPT
               !.others = @ \/ dockerfile # first_call.lines]
       ELSE [called |-> TRUE, rules |-> rules, lines |-> dockerfile,
             issues |-> issues', others |-> FALSE]

NextLinter ==
  \/ \E l \in DockerfileLines : AppendLine(l, MaxLines)
  \/ LintFile

SpecLinter == InitLinter /\ [][NextLinter]_vars

NextRuns ==
  \/ \E l \in RunLines : AppendLine(l, MaxRunLines)
  \/ LintFile

SpecRuns == InitLinter /\ [][NextRuns]_vars

NextRepeat ==
  \/ \E l \in RepeatLines : AppendLine(l, MaxRepeatLines)
  \/ ClearFile
  \/ LintFileObserved

SpecRepeat == InitLinter /\ [][NextRepeat]_vars

\* rule definitions in which a rule that precedes "Use WORKDIR instead of
\* RUN cd" has a pattern that matches the RUN lines with a cd sub-command
WorkdirRulesData ==
  << [title |-> "Avoid changing directory in RUN",
      category |-> "Maintainability",
      regex_pattern |-> "(?i)^\\s*RUN\\s+cd\\s+[\\w\\/]+"],
     [title |-> TitleWorkdir, category |-> "Maintainability",
      regex_pattern |-> "(?i)^\\s*RUN\\s+cd\\s+[\\w\\/]+"] >>

\* DockerfileLinter(rules_path) on a rules file with those definitions
InitWorkdir ==
  /\ rules_source = [state |-> "file", data |-> WorkdirRulesData]
  /\ rules = LoadRulesFrom(rules_source).rules
  /\ console = LoadRulesFrom(rules_source).printed
  /\ dockerfile = <<>>
  /\ on_disk = TRUE
  /\ pc = "constructed"
  /\ lines = <<>>
  /\ issues = <<>>
  /\ matched_lines = <<>>
  /\ has_user_instruction = FALSE
  /\ has_named_stage = FALSE
  /\ multiple_run_commands = <<>>
  /\ first_call = NoCall
  /\ OptimizerIdle

SpecWorkdir == InitWorkdir /\ [][NextRepeat]_vars

\* longest Dockerfile, in lines, of the runs in which the file comes and goes
MaxFileLines == 2

\* most diagnostics on the console in those runs
MaxDiagnostics == 2

NextFiles ==
  \/ \E l \in RepeatLines : AppendLine(l, MaxFileLines)
  \/ RemoveFile
  \/ CreateFile
  \/ Len(console) < MaxDiagnostics /\ LintFile

SpecFiles == InitLinter /\ [][NextFiles]_vars

\* before DockerfileLinter(rules_path): one of the rules files, an empty
\* Dockerfile and no linter yet
InitLoad ==
  /\ rules_source \in RulesFiles
  /\ rules = <<>>
  /\ console = <<>>
  /\ dockerfile = <<>>
  /\ on_disk = TRUE
  /\ pc = "unconstructed"
  /\ lines = <<>>
  /\ issues = <<>>
  /\ matched_lines = <<>>
  /\ has_user_instruction = FALSE
  /\ has_named_stage = FALSE
  /\ multiple_run_commands = <<>>
  /\ first_call = NoCall
  /\ OptimizerIdle

\* DockerfileLinter(rules_path): self.rules = self._load_rules(); an
\* exception that leaves _load_rules leaves the constructor, and pc names it
Construct ==
  /\ pc = "unconstructed"
  /\ rules' = LoadRulesFrom(rules_source).rules
  /\ console' = console \o LoadRulesFrom(rules_source).printed
  /\ pc' = IF LoadRulesFrom(rules_source).raised = "none"
           THEN "constructed"
           ELSE LoadRulesFrom(rules_source).raised
  /\ UNCHANGED <<rules_source, dockerfile, on_disk, lines, issues,
                 matched_lines, has_user_instruction, has_named_stage,
                 multiple_run_commands, first_call>>
  /\ UNCHANGED <<optimizerVars, serviceVars>>

NextLoad ==
  \/ Construct
  \/ \E l \in RepeatLines : AppendLine(l, MaxFileLines)
  \/ LintFile

SpecLoad == InitLoad /\ [][NextLoad]_vars

\* the categories of the rule definitions of the catalogs below: those of
\* the table, and two the table does not hold (the table is case-sensitive)
CatalogCategories ==
  DOMAIN CATEGORY_SEVERITY \cup {"Performance", "security best practices"}

\* the patterns of those rule definitions, one of them malformed
CatalogPatterns == {"^USER\\s+root", "(unclosed"}

\* the rule definitions of those catalogs, with a category and without one
CatalogDefinitions ==
  {[title |-> TitleUser, category |-> c, regex_pattern |-> p] :
     c \in CatalogCategories, p \in CatalogPatterns}
  \cup {[title |-> TitleUser, regex_pattern |-> p] : p \in CatalogPatterns}

\* most rule definitions in a catalog
MaxDefinitions == 2

\* longest Dockerfile, in lines, linted with those catalogs
MaxCatalogLines == 1

\* the rules files that hold 1..MaxDefinitions of those definitions
CatalogFiles ==
  {[state |-> "file", data |-> d] :
     d \in UNION {[1..n -> CatalogDefinitions] : n \in 1..MaxDefinitions}}

\* before DockerfileLinter(rules_path), rules_path naming one of those files
InitCatalog ==
  /\ rules_source \in CatalogFiles
  /\ rules = <<>>
  /\ console = <<>>
  /\ dockerfile = <<>>
  /\ on_disk = TRUE
  /\ pc = "unconstructed"
  /\ lines = <<>>
  /\ issues = <<>>
  /\ matched_lines = <<>>
  /\ has_user_instruction = FALSE
  /\ has_named_stage = FALSE
  /\ multiple_run_commands = <<>>
  /\ first_call = NoCall
  /\ OptimizerIdle

NextCatalog ==
  \/ Construct
  \/ \E l \in RepeatLines : AppendLine(l, MaxCatalogLines)
  \/ LintFile

SpecCatalog == InitCatalog /\ [][NextCatalog]_vars

(***************************************************************************)
(* Actions of the optimizer: the pin validation.                           *)
(***************************************************************************)
Curl == <<"c", "u", "r", "l">>

LibCurl == <<"l", "i", "b", "-", "c", "u", "r", "l">>

Vim == <<"v", "i", "m">>

\* the entries of the "versions" lists of the catalogs
VersionPatterns ==
  {<<"7", ".", "1", ".", "0">>, <<"7", ".", "1", ".", "*">>,
   <<"7", ".", "?", ".", "0">>, <<"7", ".", "1", ".", "[", "0", "1", "]">>,
   <<"7", ".", "1", ".", "0", "a">>, <<"*">>}

\* the versions asked of _package_version_ok
Versions ==
  {<<"7", ".", "1", ".", "0">>, <<"7", ".", "1", ".", "1">>,
   <<"7", ".", "2", ".", "0">>, <<"7", ".", "1", ".", "0", "A">>,
   <<"8", ".", "0">>, <<"7", ".", "1", ".", "*">>}

\* the entries of the plain lists of allowed versions of the catalogs
ListVersions ==
  {<<"7", ".", "1", ".", "0">>, <<"7", ".", "1", ".", "0", "A">>,
   <<"7", ".", "1", ".", "*">>}

\* longest "versions" list of a catalog entry
MaxPatterns == 2

\* a catalog with one debian package, curl, whose value has type t and
\* content v
CurlCatalog(t, v) ==
  <<[k |-> Debian, t |-> "dict", v |-> <<[k |-> Curl, t |-> t, v |-> v]>>]>>

\* a catalog whose debian entry has type t and content v
DebianCatalog(t, v) == <<[k |-> Debian, t |-> t, v |-> v]>>

\* the catalogs (package_catalog.yaml) of the version checks: curl with a
\* "versions" list of patterns, with a plain list of versions, null or a
\* scalar; debian as a flat list of package names, null or a scalar; and
\* the empty catalog
VersionCatalogs ==
  {CurlCatalog("dict", v) :
     v \in UNION {[1..n -> VersionPatterns] : n \in 0..MaxPatterns}}
  \cup {CurlCatalog("list", v) :
          v \in UNION {[1..n -> ListVersions] : n \in 0..MaxPatterns}}
  \cup {CurlCatalog("none", <<>>),
        CurlCatalog("str", <<>>),
        DebianCatalog("list", <<[k |-> Curl, t |-> "none", v |-> <<>>]>>),
        DebianCatalog("none", <<>>),
        DebianCatalog("str", <<>>),
        <<>>}

\* a linter that is constructed and never called
LinterIdle ==
  /\ rules_source = [state |-> "missing", data |-> <<>>]
  /\ rules = <<>>
  /\ console = <<RulesNotFound>>
  /\ dockerfile = <<>>
  /\ on_disk = TRUE
  /\ pc = "constructed"
  /\ lines = <<>>
  /\ issues = <<>>
  /\ matched_lines = <<>>
  /\ has_user_instruction = FALSE
  /\ has_named_stage = FALSE
  /\ multiple_run_commands = <<>>
  /\ first_call = NoCall

\* DockerfileOptimizer(): the catalog is loaded, on one of the hosts
InitVersion ==
  /\ LinterIdle
  /\ os_name \in OsNames
  /\ package_catalog \in VersionCatalogs
  /\ optimized_content = <<>>
  /\ pins_written = 0
  /\ post_pc = "idle"
  /\ final_content = <<>>
  /\ match_call = NoMatchCall
  /\ detected = NoDetectCall
  /\ ServicesIdle

\* self._package_version_ok(distro, pkg, ver)
PackageVersionOkCall(distro, pkg, ver) ==
  /\ match_call' =
       [called |-> TRUE, distro |-> distro, pkg |-> pkg, ver |-> ver,
        match_type |->
          PackageVersionOk(os_name, package_catalog, distro, pkg, ver)]
  /\ UNCHANGED <<os_name, package_catalog, optimized_content, pins_written,
                 post_pc, final_content, detected>>
  /\ UNCHANGED <<linterVars, serviceVars>>

NextVersion ==
  \E distro \in {Debian, Alpine} : \E pkg \in {Curl, Vim} :
    \E ver \in Versions : PackageVersionOkCall(distro, pkg, ver)

SpecVersion == InitVersion /\ [][NextVersion]_vars

\* the images of the FROM line of the optimized Dockerfile
PinImages ==
  {<<"d", "e", "b", "i", "a", "n", ":", "1", "2">>,
   <<"a", "l", "p", "i", "n", "e">>}

\* the operands of the install command: pins, and a bare package name
PinTokens ==
  {<<"c", "u", "r", "l", "=", "7", ".", "1", ".", "0">>,
   <<"l", "i", "b", "-", "c", "u", "r", "l", "=", "7", ".", "1", ".", "0">>,
   <<"c", "u", "r", "l", "=", "7", ".", "1">>,
   <<"f", "o", "o", "=", "1", ".", "0", "+">>,
   Vim}

\* most operands of the install command
MaxPins == 2

\* "RUN apt-get install -y"
InstallCommand ==
  <<"R", "U", "N", " ", "a", "p", "t", "-", "g", "e", "t", " ",
    "i", "n", "s", "t", "a", "l", "l", " ", "-", "y">>

\* a backslash that continues the command on the next line
Continuation == <<" ", "\\", "\n", " ", " ", " ", " ">>

\* a trailing comment
NoteComment == <<" ", "#", " ", "n", "o", "t", "e">>

\* debian: lib-curl with a list of versions, curl with a wildcard pattern
PinCatalog ==
  <<[k |-> Debian, t |-> "dict",
     v |-> <<[k |-> LibCurl, t |-> "list",
              v |-> <<(<<"7", ".", "1", ".", "0">>)>>],
             [k |-> Curl, t |-> "dict",
              v |-> <<(<<"7", ".", "1", ".", "*">>)>>]>>]>>

\* the catalogs of the post-processing: PinCatalog, or none (the file is
\* missing and the catalog is {})
PinCatalogs == {PinCatalog, <<>>}

InitPin ==
  /\ LinterIdle
  /\ os_name \in OsNames
  /\ package_catalog \in PinCatalogs
  /\ optimized_content = <<>>
  /\ pins_written = 0
  /\ post_pc = "idle"
  /\ final_content = <<>>
  /\ match_call = NoMatchCall
  /\ detected = NoDetectCall
  /\ ServicesIdle

HasInstall == Contains(optimized_content, InstallCommand)

HasComment == Contains(optimized_content, NoteComment)

\* the optimized Dockerfile grows by the text t
Write(t) ==
  /\ post_pc = "idle"
  /\ optimized_content' = optimized_content \o t
  /\ UNCHANGED <<os_name, package_catalog, post_pc, final_content,
                 match_call, detected>>
  /\ UNCHANGED <<linterVars, serviceVars>>

\* the FROM line
WriteFrom(img) ==
  /\ optimized_content = <<>>
  /\ Write(<<"F", "R", "O", "M", " ">> \o img \o <<"\n">>)
  /\ UNCHANGED pins_written

\* the install command
WriteRun ==
  /\ ~HasInstall
  /\ Write(InstallCommand)
  /\ UNCHANGED pins_written

\* one more operand of the install command
WritePin(t) ==
  /\ HasInstall /\ ~HasComment
  /\ pins_written < MaxPins
  /\ Write(<<" ">> \o t)
  /\ pins_written' = pins_written + 1

\* the install command continues on the next line
WriteContinuation ==
  /\ HasInstall /\ ~HasComment
  /\ ~Contains(optimized_content, <<"\\">>)
  /\ Write(Continuation)
  /\ UNCHANGED pins_written

\* a comment ends the install command
WriteComment ==
  /\ HasInstall /\ ~HasComment
  /\ ~EndsWith(optimized_content, <<" ">>)
  /\ Write(NoteComment)
  /\ UNCHANGED pins_written

\* an empty line follows a line that is ended
WriteBlank ==
  /\ EndsWith(optimized_content, <<"\n">>)
  /\ ~EndsWith(optimized_content, <<"\n", "\n">>)
  /\ Write(<<"\n">>)
  /\ UNCHANGED pins_written

\* final = self._post_process_optimized_content(optimized_content)
PostProcessCall ==
  /\ post_pc = "idle"
  /\ final_content' =
       PostProcess(os_name, package_catalog, optimized_content)
  /\ post_pc' = "returned"
  /\ UNCHANGED <<os_name, package_catalog, optimized_content, pins_written,
                 match_call, detected>>
  /\ UNCHANGED <<linterVars, serviceVars>>

NextPin ==
  \/ \E img \in PinImages : WriteFrom(img)
  \/ WriteRun
  \/ \E t \in PinTokens : WritePin(t)
  \/ WriteContinuation
  \/ WriteComment
  \/ WriteBlank
  \/ PostProcessCall

SpecPin == InitPin /\ [][NextPin]_vars

(***************************************************************************)
(* Actions of the optimizer: the detection of the distro.                  *)
(***************************************************************************)
\* the lines of the texts handed to _detect_distro: FROM lines with the
\* images alpine:3, Ubuntu, debian, scratch and ubuntu-alpine, a FROM line
\* without image, and a RUN line
DistroLines ==
  {<<"F", "R", "O", "M", " ", "a", "l", "p", "i", "n", "e", ":", "3">>,
   <<"F", "R", "O", "M", " ", "U", "b", "u", "n", "t", "u">>,
   <<"F", "R", "O", "M", " ", "d", "e", "b", "i", "a", "n">>,
   <<"F", "R", "O", "M", " ", "s", "c", "r", "a", "t", "c", "h">>,
   <<"F", "R", "O", "M", " ", "u", "b", "u", "n", "t", "u", "-", "a", "l",
     "p", "i", "n", "e">>,
   <<"F", "R", "O", "M">>,
   <<"R", "U", "N", " ", "x">>}

\* longest text, in lines, handed to _detect_distro
MaxDistroLines == 3

\* a linter and an optimizer that were never called
InitDistro == LinterIdle /\ OptimizerIdle

\* the text grows by the line l
WriteLine(l) ==
  /\ ~detected.called
  /\ Len(SplitLines(optimized_content)) < MaxDistroLines
  /\ optimized_content' = optimized_content \o l \o <<"\n">>
  /\ UNCHANGED <<os_name, package_catalog, pins_written, post_pc,
                 final_content, match_call, detected>>
  /\ UNCHANGED <<linterVars, serviceVars>>

\* distro = self._detect_distro(content)
DetectDistroCall ==
  /\ ~detected.called
  /\ detected' =
       [called |-> TRUE, distro |-> DetectDistro(optimized_content)]
  /\ UNCHANGED <<os_name, package_catalog, optimized_content, pins_written,
                 post_pc, final_content, match_call>>
  /\ UNCHANGED <<linterVars, serviceVars>>

NextDistro ==
  \/ \E l \in DistroLines : WriteLine(l)
  \/ DetectDistroCall

SpecDistro == InitDistro /\ [][NextDistro]_vars

(***************************************************************************)
(* Actions of the optimizer: the answer of the AI service.                 *)
(***************************************************************************)
\* the lines the answers are made of: the fences, the header, a line of a
\* Dockerfile, a list item, a list item with white space around it, and an
\* empty line
ResponseLines ==
  {DockerfileFence, Fence, ExplanationHeader,
   <<"F", "R", "O", "M", " ", "a">>, <<"-", " ", "x">>,
   <<" ", "-", " ", "y", " ">>, <<>>}

\* longest answer, in lines
MaxResponseLines == 4

\* an optimizer whose AI service has not answered yet
InitExtract == LinterIdle /\ OptimizerIdle

\* the AI service answers one more line:
\* response.choices[0].message.content.split(newline)
Answer(line) ==
  /\ ~extracted.called
  /\ Len(ai_response) < MaxResponseLines
  /\ ai_response' = Append(ai_response, line)
  /\ UNCHANGED extracted
  /\ UNCHANGED <<linterVars, optimizerVars, dockerVars, githubVars>>

\* self._extract_dockerfile_content(suggestions)
ExtractCall ==
  /\ ~extracted.called
  /\ extracted' =
       [called |-> TRUE,
        dockerfile_content |->
          ExtractDockerfileContent(ai_response).dockerfile_content,
        explanation |-> ExtractDockerfileContent(ai_response).explanation]
  /\ UNCHANGED ai_response
  /\ UNCHANGED <<linterVars, optimizerVars, dockerVars, githubVars>>

NextExtract ==
  \/ \E line \in ResponseLines : Answer(line)
  \/ ExtractCall

SpecExtract == InitExtract /\ [][NextExtract]_vars

(***************************************************************************)
(* Actions of the optimizer: the Docker daemon.                            *)
(***************************************************************************)
\* most calls of docker.from_env
MaxAttempts == 3

\* DockerfileOptimizer() on a host with the docker library or without it
InitDocker ==
  /\ LinterIdle
  /\ os_name = "posix"
  /\ package_catalog = <<>>
  /\ optimized_content = <<>>
  /\ pins_written = 0
  /\ post_pc = "idle"
  /\ final_content = <<>>
  /\ match_call = NoMatchCall
  /\ detected = NoDetectCall
  /\ ai_response = <<>>
  /\ extracted = NoExtractCall
  /\ docker_python_lib_available \in BOOLEAN
  /\ DockerIdle
  /\ GithubIdle

\* optimizer.attempt_docker_builds = perform_docker_builds
SetAttemptDockerBuilds(b) ==
  /\ attempt_docker_builds # b
  /\ attempt_docker_builds' = b
  /\ UNCHANGED <<docker_python_lib_available, client,
                 docker_daemon_connected, connect_attempts, connect_failed,
                 ensure_call, image_info>>
  /\ UNCHANGED <<linterVars, optimizerVars, aiVars, githubVars>>

\* what a call of _ensure_docker_client that meets outcome leaves behind
Ensure(outcome) ==
  LET e == EnsureDockerClient(attempt_docker_builds,
                              docker_python_lib_available, client,
                              docker_daemon_connected, outcome)
  IN /\ connect_attempts < MaxAttempts
     /\ client' = e.client
     /\ docker_daemon_connected' = e.docker_daemon_connected
     /\ connect_attempts' =
          IF e.attempted THEN connect_attempts + 1 ELSE connect_attempts
     /\ connect_failed' = (connect_failed \/ (e.attempted /\ ~e.returned))
     /\ ensure_call' =
          [called |-> TRUE, builds |-> attempt_docker_builds,
           failed_before |-> connect_failed, attempted |-> e.attempted,
           returned |-> e.returned]
     /\ UNCHANGED <<attempt_docker_builds, docker_python_lib_available>>
     /\ UNCHANGED <<linterVars, optimizerVars, aiVars, githubVars>>

\* self._ensure_docker_client()
EnsureCall ==
  \E outcome \in ConnectOutcomes : Ensure(outcome) /\ UNCHANGED image_info

\* self._get_image_info(dockerfile_path, tag)
GetImageInfoCall ==
  \E outcome \in ConnectOutcomes : \E build \in BuildOutcomes :
    \E size, layer_count \in ImageSizes :
      /\ Ensure(outcome)
      /\ image_info' =
           [called |-> TRUE, ensured |-> ensure_call'.returned,
            build |-> build] @@
           GetImageInfo(ensure_call'.returned, build, size, layer_count)

NextDocker ==
  \/ \E b \in BOOLEAN : SetAttemptDockerBuilds(b)
  \/ EnsureCall
  \/ GetImageInfoCall

SpecDocker == InitDocker /\ [][NextDocker]_vars

(***************************************************************************)
(* Actions of the optimizer: the pull request on GitHub.                   *)
(***************************************************************************)
\* the lines the answers that are committed are made of
ReplyLines == {DockerfileFence, Fence, <<"F", "R", "O", "M", " ", "a">>}

\* longest answer that is committed, in lines
MaxReplyLines == 4

\* the first remote operation that raises, or "ok" when none does;
\* get_contents raises, or lists no Dockerfile, which raises ValueError
RemoteOutcomes ==
  {"ok", "create_git_ref", "get_contents", "update_file", "create_pull"}

\* the changes made to the repository when content is committed: the
\* branch, the file, the pull request, up to the operation that raises
RemoteOperations(content, outcome) ==
  LET all == <<[op |-> "create_git_ref", content |-> None],
               [op |-> "update_file", content |-> content],
               [op |-> "create_pull", content |-> None]>>
      done == CASE outcome = "create_git_ref" -> 0
                [] outcome \in {"get_contents", "update_file"} -> 1
                [] outcome = "create_pull" -> 2
                [] OTHER -> 3
  IN SubSeq(all, 1, done)

\* the truth value of an optional text: None and the empty text are false
Truthy(content) == content # None /\ content # <<>>

\* self._create_pull_request(repository, analysis): the first suggestion,
\* which is the first line of the answer, is committed
CreatePullRequestOfRepository(an, outcome) ==
  RemoteOperations(an.suggestions[1], outcome)

\* self.create_pull_request(repo_url, analysis): the branch is created
\* first; without optimized content ValueError is raised after that
CreatePullRequestOfUrl(an, outcome) ==
  IF outcome \in {"create_git_ref", "get_contents"}
       \/ Truthy(an.optimized_content)
  THEN RemoteOperations(an.optimized_content, outcome)
  ELSE RemoteOperations(an.optimized_content, "update_file")

\* what a call that meets outcome ends with
Ended(an, outcome, checked) ==
  CASE outcome \in {"create_git_ref", "get_contents"} -> outcome
    [] checked /\ ~Truthy(an.optimized_content) -> "ValueError"
    [] OTHER -> outcome

\* the Analysis built from an answer: processed_optimized_content stays
\* None when nothing is extracted or the post-processor raises
AnalysisOf(os, catalog, suggestions) ==
  LET raw == ExtractDockerfileContent(suggestions).dockerfile_content
      processed == PostProcess(os, catalog, raw)
  IN [made |-> TRUE, suggestions |-> suggestions,
      optimized_content |->
        IF raw = <<>> \/ processed \in {IndexError, AttributeError}
        THEN None
        ELSE processed]

\* an optimizer with a token, whose AI service has not answered yet
InitGithub == LinterIdle /\ OptimizerIdle

\* the statements of analyse_dockerfile of an optimizer that attempts no
\* build: lint_file, the answer, _get_image_info, the extraction and the
\* post-processing of what was extracted
Analyse ==
  LET raw == ExtractDockerfileContent(ai_response).dockerfile_content
  IN /\ ~analysis.made
     /\ ai_response # <<>>
     /\ ~attempt_docker_builds
     /\ post_pc = "idle"
     /\ LintStep
     /\ UNCHANGED first_call
     /\ ensure_call' =
          [called |-> TRUE, builds |-> FALSE,
           failed_before |-> connect_failed, attempted |-> FALSE,
           returned |-> FALSE]
     /\ image_info' =
          [called |-> TRUE, ensured |-> FALSE, build |-> "none"] @@
          GetImageInfo(FALSE, "none", 0, 0)
     /\ extracted' =
          [called |-> TRUE, dockerfile_content |-> raw,
           explanation |->
             ExtractDockerfileContent(ai_response).explanation]
     /\ IF raw # <<>>
        THEN /\ optimized_content' = raw
             /\ final_content' = PostProcess(os_name, package_catalog, raw)
             /\ post_pc' = "returned"
        ELSE UNCHANGED <<optimized_content, final_content, post_pc>>
     /\ analysis' = AnalysisOf(os_name, package_catalog, ai_response)
     /\ UNCHANGED <<os_name, package_catalog, pins_written, match_call,
                    detected, ai_response, attempt_docker_builds,
                    docker_python_lib_available, client,
                    docker_daemon_connected, connect_attempts,
                    connect_failed>>

\* optimizer.analyse_dockerfile(dockerfile_path)
AnalyseDockerfile == Analyse /\ UNCHANGED <<remote, pull_request>>

\* optimizer.optimize_from_github(repo_url): the analysis, then
\* _create_pull_request
OptimizeFromGithub(outcome) ==
  /\ ~pull_request.called
  /\ Analyse
  /\ remote' = CreatePullRequestOfRepository(analysis', outcome)
  /\ pull_request' =
       [called |-> TRUE, path |-> "optimize_from_github",
        outcome |-> Ended(analysis', outcome, FALSE)]

\* optimizer.create_pull_request(repo_url, analysis)
CreatePullRequest(outcome) ==
  /\ analysis.made
  /\ ~pull_request.called
  /\ remote' = CreatePullRequestOfUrl(analysis, outcome)
  /\ pull_request' =
       [called |-> TRUE, path |-> "create_pull_request",
        outcome |-> Ended(analysis, outcome, TRUE)]
  /\ UNCHANGED analysis
  /\ UNCHANGED <<linterVars, optimizerVars, aiVars, dockerVars>>

NextGithub ==
  \/ \E line \in ReplyLines :
       Len(ai_response) < MaxReplyLines /\ Answer(line)
  \/ AnalyseDockerfile
  \/ \E outcome \in RemoteOutcomes : OptimizeFromGithub(outcome)
  \/ \E outcome \in RemoteOutcomes : CreatePullRequest(outcome)

SpecGithub == InitGithub /\ [][NextGithub]_vars

(***************************************************************************)
(* Properties of lint_file.                                                *)
(***************************************************************************)
Returned == pc = "returned"

HasRule(t) == RuleByTitle(rules, t) # NoRule

\* positions in the returned list of the issues of the rule titled t
IssuesOfRule(t) == {i \in DOMAIN issues : issues[i].rule.title = t}

\* positions of the issues synthesized by a check: they carry its message
IssuesWithContent(c) == {i \in DOMAIN issues : issues[i].line_content = c}

\* \S of the re module
NonSpace == AnyChar \ WhiteSpace

\* a FROM line that names its build stage: FROM <image> AS <name>
DeclaresNamedStage(l) ==
  MatchIgnoreCase(
    <<Bol, Star(WhiteSpace)>> \o Lit(<<"f", "r", "o", "m">>)
      \o <<Plus(WhiteSpace), Plus(NonSpace), Plus(WhiteSpace)>>
      \o Lit(<<"a", "s">>)
      \o <<Plus(WhiteSpace), Plus(NonSpace), Star(WhiteSpace), Eol>>,
    l)

NamedStageLines == {l \in DockerfileLines : DeclaresNamedStage(l)}

\* C1: the returned list holds no two issues with the same
\* (line_number, rule.id) pair.
C1_NoDuplicateIssue ==
  Returned =>
    \A i, j \in DOMAIN issues :
      i # j => <<issues[i].line_number, issues[i].rule.id>>
                 # <<issues[j].line_number, issues[j].rule.id>>

\* C2: when some FROM line of the file declares a named build stage, the
\* returned list holds no issue of the rule "Use multi-stage builds".
C2_NamedStageNoIssue ==
  (Returned /\ \E i \in DOMAIN lines : lines[i] \in NamedStageLines)
    => IssuesOfRule(TitleMultiStage) = {}

\* the first line of the file that starts with FROM, 1 when there is none
FirstFromExpected ==
  LET froms == {i \in DOMAIN lines :
                  StartsWith(Upper(Strip(lines[i])), <<"F", "R", "O", "M">>)}
  IN IF froms = {} THEN 1
     ELSE CHOOSE i \in froms : \A j \in froms : i <= j

C4_UserIssueAtLastLine ==
  (/\ Returned
   /\ HasRule(TitleUser)
   /\ \A i \in DOMAIN lines :
        ~StartsWith(Upper(Strip(lines[i])), <<"U", "S", "E", "R">>))
    => /\ Cardinality(IssuesOfRule(TitleUser)) = 1
       /\ \A i \in IssuesOfRule(TitleUser) :
            issues[i].line_number = Len(lines)

\* the line numbers of the instruction lines (not blank, not a comment)
InstructionLines == {i \in DOMAIN lines : ~LineFacts[lines[i]].skip}

\* line n starts a maximal run of two or more consecutive RUN lines
StartsLongRun(n) ==
  LET isRun(i) == LineFacts[lines[i]].run
      before == {i \in InstructionLines : i < n}
      after == {i \in InstructionLines : i > n}
  IN /\ n \in InstructionLines
     /\ isRun(n)
     /\ \A i \in before : (\A j \in before : j <= i) => ~isRun(i)
     /\ \E i \in after : (\A j \in after : i <= j) /\ isRun(i)

\* C5 as stated: with the rule in the catalog, the returned list holds
\* exactly one issue of the rule "Combine RUN commands to reduce layers" at
\* the first line of every maximal run of two or more RUN lines, and no
\* issue of that rule anywhere else.
C5_OneCombineIssuePerRun ==
  (Returned /\ HasRule(TitleCombine)) =>
    \A n \in 0..Len(lines) :
      Cardinality({i \in IssuesOfRule(TitleCombine) :
                     issues[i].line_number = n})
        = IF StartsLongRun(n) THEN 1 ELSE 0

\* the message of the issue of a run of RUN lines that starts at line n
RunClosureContent(n) == MultiRunIssue(NoRule, n).line_content

\* C5 amended: with the rule in the catalog, the returned list holds exactly
\* one run-closure issue ("Multiple RUN commands found starting at line n"),
\* of the rule "Combine RUN commands to reduce layers", at the first line n
\* of every maximal run of two or more RUN lines, whether the run is closed
\* by another instruction or by the end of the file, and no run-closure
\* issue anywhere else; the matches of the rule's own pattern on single lines
\* come in addition.
C5_OneClosureIssuePerRun ==
  (Returned /\ HasRule(TitleCombine)) =>
    /\ \A n \in 0..Len(lines) :
         Cardinality({i \in DOMAIN issues :
                        /\ issues[i].line_number = n
                        /\ issues[i].rule = RuleByTitle(rules, TitleCombine)
                        /\ issues[i].line_content = RunClosureContent(n)})
           = IF StartsLongRun(n) THEN 1 ELSE 0
    /\ \A i \in DOMAIN issues :
         (\E n \in 0..Len(lines) : issues[i].line_content = RunClosureContent(n))
           => issues[i].line_content = RunClosureContent(issues[i].line_number)

\* C5 witness: a returned scan of a file with two runs of RUN lines split by
\* another instruction, each reported once at its first line.
C5_Witness ==
  /\ Returned
  /\ HasRule(TitleCombine)
  /\ \E m, n \in DOMAIN lines :
       /\ m < n
       /\ StartsLongRun(m)
       /\ StartsLongRun(n)
       /\ \E i, j \in DOMAIN issues :
            /\ issues[i].line_content = RunClosureContent(m)
            /\ issues[j].line_content = RunClosureContent(n)

\* the issues synthesized by the two global checks
GlobalCheckIssues ==
  IssuesWithContent(NoUserContent) \cup IssuesWithContent(NoStageContent)

\* the issues of the per-line matches: they carry the text of their line
PerLineIssues ==
  {i \in DOMAIN issues :
     /\ issues[i].line_number \in DOMAIN lines
     /\ issues[i].line_content = RStripNewline(lines[issues[i].line_number])}

\* C6: the returned list is in discovery order: the per-line matches in
\* increasing line order, and the issues of the global checks last, no other
\* issue following one of them.
C6_GlobalChecksLast ==
  Returned =>
    /\ \A i, j \in PerLineIssues :
         i < j => issues[i].line_number <= issues[j].line_number
    /\ \A i \in GlobalCheckIssues :
         \A j \in DOMAIN issues : i < j => j \in GlobalCheckIssues

PostReturned ==
  post_pc = "returned" /\ final_content \notin {IndexError, AttributeError}

\* the lines of the text handed to the post-processor
InLines == SplitLines(optimized_content)

\* the lines of the text it returned
OutLines == SplitLines(final_content)

RECURSIVE InstallLineIndexes(_, _)
\* the indexes, from i on, of the lines of ls inside a RUN block that
\* matches the install signature
InstallLineIndexes(ls, i) ==
  IF i > Len(ls) THEN {}
  ELSE (IF StartsRunBlock(ls[i])
           /\ IsInstallBlock(SubSeq(ls, i, BlockEnd(ls, i)))
        THEN i..BlockEnd(ls, i)
        ELSE {})
       \cup InstallLineIndexes(ls, NextIndex(ls, i, BlockEnd(ls, i)))

\* the pins found on a line
PinsOfLine(l) == {FindAll(l, 1)[h] : h \in 1..Len(FindAll(l, 1))}

\* name=version
PinText(p) == p.pkg \o <<"=">> \o p.ver

\* the class of a pin of the text handed to the post-processor
ClassOf(p) ==
  PackageVersionOk(os_name, package_catalog,
                   DetectDistro(optimized_content), p.pkg, p.ver)

\* the places <<i, j, p>> of the pins of class c: word j of line i, a line
\* of an install block, is the pin p
PinPlaces(c) ==
  {x \in UNION {UNION {{<<i, j, p>> : p \in PinsOfLine(InLines[i])}
                       : j \in 1..Len(Split(InLines[i]))}
                : i \in InstallLineIndexes(InLines, 1)} :
     /\ Split(InLines[x[1]])[x[2]] = PinText(x[3])
     /\ ClassOf(x[3]) \in c}

\* word j of line i of the returned text, <<>> when there is none
OutWord(i, j) ==
  IF i <= Len(OutLines) /\ j <= Len(Split(OutLines[i]))
  THEN Split(OutLines[i])[j]
  ELSE <<>>

\* C8: in the returned text every pin classified EXACT_STRING_MATCH is
\* still present as name=version, whatever the other pins of its line or
\* block are and however they are classified
C8_ExactPinsUntouched ==
  PostReturned =>
    \A x \in PinPlaces({"EXACT_STRING_MATCH"}) :
      OutWord(x[1], x[2]) = PinText(x[3])

\* C9: in the returned text every pin of an install block classified
\* WILDCARD_PATTERN_MATCH or NO_MATCH has become the bare package name
C9_UnsafePinsStripped ==
  PostReturned =>
    \A x \in PinPlaces({"WILDCARD_PATTERN_MATCH", "NO_MATCH"}) :
      OutWord(x[1], x[2]) = x[3].pkg

\* the entry of a key in a YAML mapping, of type "absent" when the mapping
\* has no such key
EntryAt(mapping, key) ==
  IF \E i \in 1..Len(mapping) : mapping[i].k = key
  THEN mapping[CHOOSE i \in 1..Len(mapping) : mapping[i].k = key]
  ELSE [k |-> key, t |-> "absent", v |-> <<>>]

\* the distro entry that the last call of _package_version_ok consulted
CalledDistro == EntryAt(package_catalog, match_call.distro)

\* the package entry that it consulted: absent unless the distro entry is a
\* mapping that holds the package
CalledEntry ==
  IF CalledDistro.t = "dict"
  THEN EntryAt(CalledDistro.v, match_call.pkg)
  ELSE [k |-> match_call.pkg, t |-> "absent", v |-> <<>>]

\* the positions of the patterns of that entry that glob-match the version
GlobMatches ==
  {i \in 1..Len(CalledEntry.v) :
     Fnmatch(os_name, match_call.ver, CalledEntry.v[i])}

\* the first of them
FirstGlobMatch == CHOOSE i \in GlobMatches : \A h \in GlobMatches : i <= h

\* C10: when the catalog entry of the package holds a list of version
\* patterns, the first pattern that glob-matches the version decides the
\* result: WILDCARD_PATTERN_MATCH if it holds a wildcard, otherwise
\* EXACT_STRING_MATCH; NO_MATCH if no pattern matches
C10_FirstGlobMatchDecides ==
  (match_call.called /\ CalledEntry.t = "dict") =>
    match_call.match_type =
      IF GlobMatches = {} THEN "NO_MATCH"
      ELSE IF HasWildcard(CalledEntry.v[FirstGlobMatch])
           THEN "WILDCARD_PATTERN_MATCH"
           ELSE "EXACT_STRING_MATCH"

\* the version of the last call is an element of the consulted list
VersionListed ==
  \E i \in 1..Len(CalledEntry.v) : CalledEntry.v[i] = match_call.ver

NoVersionInformation ==
  \/ CalledDistro.t \in {"list", "absent"}
  \/ /\ CalledDistro.t = "dict"
     /\ \/ CalledEntry.t = "absent"
        \/ CalledEntry.t \in {"dict", "list"} /\ CalledEntry.v = <<>>

C13_MalformedIsNoMatch ==
  (/\ match_call.called
   /\ \/ CalledDistro.t \in {"none", "str"}
      \/ CalledEntry.t \in {"none", "str"})
    => match_call.match_type = "NO_MATCH"

\* the text handed to the post-processor holds no name=version pin
NoPins == \A i \in 1..Len(InLines) : PinsOfLine(InLines[i]) = {}

\* C14: a text without any name=version pin is returned as it is, character
\* for character, line terminators and trailing newline included
C14_NoPinsSameText ==
  (PostReturned /\ NoPins) => final_content = optimized_content

\* the lines of the text handed to _detect_distro
DetectLines == SplitLines(optimized_content)

\* the indexes of its base-image lines
FromLineIndexes ==
  {i \in 1..Len(DetectLines) :
     StartsWith(Strip(DetectLines[i]), <<"F", "R", "O", "M">>)}

\* base-image line i carries an image reference
HasImage(i) == Len(Split(DetectLines[i])) >= 2

\* the distro that the image of base-image line i names: the first of alpine,
\* ubuntu and debian that occurs in it, letter case apart; <<>> when the line
\* has no image or the image names none of them
DistroNamed(i) ==
  LET img == Lower(Split(DetectLines[i])[2])
  IN IF ~HasImage(i) THEN <<>>
     ELSE IF \E h \in 1..Len(img) : OccursAt(img, Alpine, h) THEN Alpine
     ELSE IF \E h \in 1..Len(img) : OccursAt(img, Ubuntu, h) THEN Ubuntu
     ELSE IF \E h \in 1..Len(img) : OccursAt(img, Debian, h) THEN Debian
     ELSE <<>>

\* the base-image lines whose image names a distro
NamingLines == {i \in FromLineIndexes : DistroNamed(i) # <<>>}

\* C15: when every base-image line carries an image, the result is the
\* distro named by the image of a base-image line, the first that names one,
\* where alpine goes before ubuntu and ubuntu before debian and letter case
\* plays no part; it is debian when there is no base-image line or no image
\* names a distro
C15_PriorityOfKeywords ==
  (detected.called /\ \A i \in FromLineIndexes : HasImage(i)) =>
    detected.distro =
      IF NamingLines = {} THEN Debian
      ELSE DistroNamed(CHOOSE i \in NamingLines : \A h \in NamingLines : i <= h)

\* C15 witness: the image of the first base-image line names ubuntu before
\* alpine and the result is alpine
C15_Witness ==
  /\ detected.called
  /\ FromLineIndexes # {}
  /\ \A i \in FromLineIndexes : HasImage(i)
  /\ LET f == CHOOSE i \in FromLineIndexes : \A h \in FromLineIndexes : i <= h
     IN /\ Contains(Lower(Split(DetectLines[f])[2]), Ubuntu)
        /\ Contains(Lower(Split(DetectLines[f])[2]), Alpine)
  /\ detected.distro = Alpine

\* C16: the first base-image line alone decides: the result is the distro
\* its image names, and debian when it names none or when there is no
\* base-image line, whatever the later lines are; a base-image line without
\* image raises nothing
C16_FirstFromLineDecides ==
  detected.called =>
    detected.distro =
      IF FromLineIndexes = {} THEN Debian
      ELSE LET f == CHOOSE i \in FromLineIndexes :
                      \A h \in FromLineIndexes : i <= h
           IN IF DistroNamed(f) # <<>> THEN DistroNamed(f) ELSE Debian

RECURSIVE InstallBlocks(_, _)
\* the RUN blocks of ls, from line i on, that match the install signature:
\* <<first line, last line>> of each
InstallBlocks(ls, i) ==
  IF i > Len(ls) THEN {}
  ELSE (IF StartsRunBlock(ls[i])
           /\ IsInstallBlock(SubSeq(ls, i, BlockEnd(ls, i)))
        THEN {<<i, BlockEnd(ls, i)>>}
        ELSE {})
       \cup InstallBlocks(ls, NextIndex(ls, i, BlockEnd(ls, i)))

\* the marker comment is on line i of the returned text
MarkerOn(i) == i <= Len(OutLines) /\ Contains(OutLines[i], MarkerText)

\* a pin of the block b is no longer where it was in the returned text
PinAlteredIn(b) ==
  \E x \in PinPlaces(VersionMatch \cup {"AttributeError"}) :
    x[1] \in b[1]..b[2] /\ OutWord(x[1], x[2]) # PinText(x[3])

\* C17: in the returned text the marker comment is on the last line of a RUN
\* block exactly when a pin of that block was altered, and the post-processor
\* returns its own result unchanged
C17_MarkerIffAltered ==
  PostReturned =>
    /\ \A b \in InstallBlocks(InLines, 1) : MarkerOn(b[2]) <=> PinAlteredIn(b)
    /\ PostProcess(os_name, package_catalog, final_content) = final_content

\* C18: the returned text has as many lines as the text handed in, and every
\* line outside the RUN blocks that match the install signature is the line
\* at the same place of the text handed in
C18_OtherLinesPassThrough ==
  PostReturned =>
    /\ Len(OutLines) = Len(InLines)
    /\ \A i \in 1..Len(InLines) :
         i \notin InstallLineIndexes(InLines, 1) => OutLines[i] = InLines[i]

\* C19: a call of lint_file while the Dockerfile does not exist returns, and
\* what it returns is the empty list
C19_MissingFileEmptyList ==
  [][(LintFile /\ ~on_disk) => (pc' = "returned" /\ issues' = <<>>)]_vars

\* C19 witness: a linter with rules has returned from a call on a missing
\* Dockerfile, after the diagnostic, with an empty list
C19_Witness ==
  /\ ~on_disk
  /\ rules # <<>>
  /\ pc = "returned"
  /\ console # <<>>
  /\ console[Len(console)] = DockerfileNotFound
  /\ issues = <<>>

\* C20: when the rules file is missing, may not be read or cannot be parsed,
\* the construction of the linter returns a linter, its rule set is empty
\* and a diagnostic has been printed
C20_LoadFailureEmptyRules ==
  (/\ pc # "unconstructed"
   /\ rules_source.state \in {"missing", "unreadable", "unparsable"})
    => /\ pc \in {"constructed", "returned"}
       /\ rules = <<>>
       /\ console # <<>>

(***************************************************************************)
(* Properties of lint_file with an empty catalog.                          *)
(***************************************************************************)
\* the file read by the last call holds two RUN lines in a row
HasRunOfRuns ==
  \E i \in 1..(Len(lines) - 1) :
    LineFacts[lines[i]].run /\ LineFacts[lines[i + 1]].run

\* C21: with an empty rule catalog lint_file returns an empty issue list,
\* whatever the file holds: no issue is synthesized for a missing USER
\* line, a missing named stage or a run of RUN lines.
C21_EmptyCatalogNoIssue == (Returned /\ rules = <<>>) => issues = <<>>

\* an empty catalog, and a file without USER line and named stage that
\* holds a closed run of RUN lines
C21_Witness ==
  /\ Returned
  /\ rules = <<>>
  /\ HasRunOfRuns
  /\ lines[Len(lines)] = LineCopy
  /\ ~has_user_instruction
  /\ ~has_named_stage
  /\ issues = <<>>

(***************************************************************************)
(* Properties of _load_rules.                                              *)
(***************************************************************************)
\* the constructor has been called on the rules file
Loaded == pc # "unconstructed"

\* the definitions of the rules file whose pattern is well-formed, in order
WellFormedDefinitions ==
  SelectSeq(rules_source.data,
            LAMBDA d : d.regex_pattern \notin MalformedPatterns)

\* C22: a malformed pattern in one rule definition is a failure of that
\* rule alone: the constructor returns a linter whose rules are those of
\* the other, well-formed definitions, in their order.
C22_BadPatternIsolated ==
  Loaded =>
    /\ pc \in {"constructed", "returned"}
    /\ Len(rules) = Len(WellFormedDefinitions)
    /\ \A i \in 1..Len(rules) :
         /\ rules[i].title = WellFormedDefinitions[i].title
         /\ rules[i].regex_pattern = WellFormedDefinitions[i].regex_pattern

\* the linter was constructed from a rules file with rule definitions
LoadedFromFile ==
  pc \in {"constructed", "returned"} /\ rules_source.state = "file"

\* the rule definition has a category
HasCategory(d) == "category" \in DOMAIN d

\* the rule definition has a category that the table holds
HasKnownCategory(d) ==
  HasCategory(d) /\ d.category \in DOMAIN CATEGORY_SEVERITY

\* C25: the severity of each loaded rule is the entry of the category table
\* for its category, and LOW when the category is not in the table, be it
\* unrecognized or absent.
C25_SeverityByTableElseLow ==
  LoadedFromFile =>
    \A i \in 1..Len(rules) :
      rules[i].severity =
        IF HasKnownCategory(rules_source.data[i])
        THEN CATEGORY_SEVERITY[rules_source.data[i].category]
        ELSE "LOW"

\* C25, amended: the severity of each loaded rule is the entry of the
\* category table for its category, LOW when the definition has a category
\* that the table does not hold, and the entry of "Maintainability", MEDIUM,
\* when the definition has no category.
C25_SeverityByCategory ==
  LoadedFromFile =>
    /\ Len(rules) = Len(rules_source.data)
    /\ \A i \in 1..Len(rules) :
         rules[i].severity =
           CASE HasKnownCategory(rules_source.data[i]) ->
                  CATEGORY_SEVERITY[rules_source.data[i].category]
             [] HasCategory(rules_source.data[i]) -> "LOW"
             [] OTHER -> "MEDIUM"

\* a catalog was loaded that holds a definition without category and one
\* with a category the table does not hold
C25_Witness ==
  /\ LoadedFromFile
  /\ Len(rules) = 2
  /\ ~HasCategory(rules_source.data[1])
  /\ rules[1].severity = "MEDIUM"
  /\ HasCategory(rules_source.data[2])
  /\ rules_source.data[2].category = "Performance"
  /\ rules[2].severity = "LOW"

(***************************************************************************)
(* Properties of lint_file: the rules that operate over the whole file.    *)
(***************************************************************************)
\* the patterns written to match across lines; a rule definition has no
\* field that marks them
WholeFilePatterns ==
  {"(?i)(?:^|\\n)RUN\\s+(?:(?!&&).)*$\\s*(?:^|\\n)RUN\\s+"}

\* the rules of the linter that operate over the whole file
WholeFileRules ==
  {i \in 1..Len(rules) : rules[i].regex_pattern \in WholeFilePatterns}

RECURSIVE MatchStarts(_, _, _)
\* the start positions of the matches of pattern.finditer(s), from pos on;
\* the quantifiers of these patterns are greedy and end a match as far to
\* the right as it can end
MatchStarts(re, s, pos) ==
  LET starts == {p \in pos..(Len(s) + 1) : Ends(re, s, {p}) # {}}
  IN IF starts = {} THEN {}
     ELSE LET start == CHOOSE p \in starts : \A q \in starts : p <= q
              end == MaxOf(Ends(re, s, {start}))
          IN {start} \cup MatchStarts(re, s, IF end > start THEN end
                                             ELSE start + 1)

\* one plus the number of newline characters before position p of s
LineOfPosition(s, p) ==
  1 + Cardinality({q \in 1..(p - 1) : s[q] = "\n"})

\* C23: for every rule that operates over the whole file, every match of
\* its pattern in the concatenated text of the file has an issue of that
\* rule in the returned list, on the line the match starts on: one plus the
\* number of newline characters before the start of the match.
C23_WholeFileMatchesReported ==
  Returned =>
    \A i \in WholeFileRules :
      \A p \in MatchStarts(Compile(rules[i].regex_pattern),
                           Lower(FullContent(lines)), 1) :
        \E n \in DOMAIN issues :
          /\ issues[n].rule.id = rules[i].id
          /\ issues[n].line_number = LineOfPosition(FullContent(lines), p)

(***************************************************************************)
(* Properties of lint_file: the issues of the per-line matches.            *)
(***************************************************************************)
\* the messages the synthesized issues carry in place of a line
SynthesizedContents ==
  {NoUserContent, NoStageContent}
    \cup {RunClosureContent(n) : n \in 1..(Len(lines) + 1)}

\* positions in the returned list of the issues that a match on a line
\* produced
MatchIssues ==
  {i \in DOMAIN issues : issues[i].line_content \notin SynthesizedContents}

\* the line as readlines() returns it, without the newline that ends it
WithoutNewline(l) ==
  IF l # <<>> /\ l[Len(l)] = "\n" THEN SubSeq(l, 1, Len(l) - 1) ELSE l

\* an empty line (white space only) or a comment line
BlankOrComment(l) == Strip(l) = <<>> \/ Strip(l)[1] = "#"

\* C24: every issue produced by a match on a line carries the 1-based
\* position of that line in the file, blank and comment lines counted, and
\* the text of that line without its newline; the line is neither empty nor
\* a comment, and it is a line the rule applies to.
C24_MatchIssueNamesItsLine ==
  Returned =>
    \A i \in MatchIssues :
      LET n == issues[i].line_number
      IN /\ n \in DOMAIN lines
         /\ issues[i].line_content = WithoutNewline(lines[n])
         /\ ~BlankOrComment(lines[n])
         /\ \/ RuleMatches(issues[i].rule, lines[n])
            \/ issues[i].rule.title = TitleWorkdir

\* a match on the third line of a file that starts with an empty line and a
\* comment line
C24_Witness ==
  /\ Returned
  /\ Len(lines) = 3
  /\ lines[1] = LineBlank
  /\ lines[2] = LineComment
  /\ \E i \in MatchIssues :
       /\ issues[i].line_number = 3
       /\ issues[i].line_content = WithoutNewline(lines[3])
       /\ RuleMatches(issues[i].rule, lines[3])

(***************************************************************************)
(* Properties of _extract_dockerfile_content.                              *)
(***************************************************************************)
\* the stripped text of line i of the answer
Stripped(i) == Strip(ai_response[i])

\* line i starts the block of the Dockerfile
Opens(i) == StartsWith(Stripped(i), DockerfileFence)

\* line i is a closing fence
Closes(i) == Stripped(i) = Fence

\* line i is the header of the explanation
Heads(i) == StartsWith(Stripped(i), ExplanationHeader)

\* the lines strictly between a Dockerfile fence and the next closing fence
FencedLines ==
  {i \in DOMAIN ai_response :
     \E j \in 1..(i - 1) : \E k \in (i + 1)..Len(ai_response) :
       /\ Opens(j)
       /\ Closes(k)
       /\ \A h \in (j + 1)..(k - 1) : ~Closes(h)}

\* the lines of a set of positions of the answer, in their order
RECURSIVE LinesOf(_, _)
LinesOf(S, i) ==
  IF i > Len(ai_response) THEN <<>>
  ELSE IF i \in S THEN <<ai_response[i]>> \o LinesOf(S, i + 1)
  ELSE LinesOf(S, i + 1)

\* a list item: -, * or + first, or a digit and then . or )
ListItem(i) ==
  \/ Stripped(i) # <<>> /\ Stripped(i)[1] \in {"-", "*", "+"}
  \/ /\ Len(Stripped(i)) > 1
     /\ Stripped(i)[1] \in Digits
     /\ Stripped(i)[2] \in {".", ")"}

\* the list items after the header, up to the first non-empty line that
\* is not a list item
ExplainedLines ==
  {i \in DOMAIN ai_response :
     /\ ListItem(i)
     /\ \E j \in 1..(i - 1) :
          /\ Heads(j)
          /\ \A h \in (j + 1)..(i - 1) :
               Stripped(h) = <<>> \/ ListItem(h)}

\* the positions of S whose stripped text no earlier position of S has
FirstOccurrences(S) ==
  {i \in S : \A h \in S : h < i => Stripped(h) # Stripped(i)}

BlockLines ==
  {i \in DOMAIN ai_response :
     /\ ~Opens(i) /\ ~Closes(i) /\ ~Heads(i)
     /\ \E j \in 1..(i - 1) :
          /\ Opens(j)
          /\ \A h \in (j + 1)..(i - 1) : ~Closes(h) /\ ~Heads(h)}

\* the positions of S in increasing order
RECURSIVE Ordered(_)
Ordered(S) ==
  IF S = {} THEN <<>>
  ELSE LET m == CHOOSE i \in S : \A h \in S : i <= h
       IN <<m>> \o Ordered(S \ {m})

\* line i of the explanation as it is returned: the white space before the
\* first collected item and after the last one is gone
Trimmed(i) ==
  LET first == \A h \in ExplainedLines : i <= h
      last == \A h \in ExplainedLines : h <= i
      l == IF first THEN LStripSet(ai_response[i], WhiteSpace)
           ELSE ai_response[i]
  IN IF last THEN RStripSet(l, WhiteSpace) ELSE l

ChangesDirectory(l) ==
  /\ StartsWith(Upper(Strip(l)), <<"R", "U", "N">>)
  /\ Search(<<WordBoundary, One({"c"}), One({"d"}), WordBoundary>>, Strip(l))

\* positions in the returned list of the issues of the rule titled t that
\* are reported on line n
IssuesOfRuleOn(t, n) ==
  {i \in IssuesOfRule(t) : issues[i].line_number = n}

\* C27: on a RUN line with a cd sub-command the issue of the rule "Use
\* WORKDIR instead of RUN cd" is reported exactly once, although the pattern
\* of the rule may match the line as well, and before every issue that a
\* match of another rule on that line produces.
C27_OneWorkdirIssueFirst ==
  (Returned /\ HasRule(TitleWorkdir)) =>
    \A n \in DOMAIN lines :
      ChangesDirectory(lines[n]) =>
        /\ Cardinality(IssuesOfRuleOn(TitleWorkdir, n)) = 1
        /\ \A i \in IssuesOfRuleOn(TitleWorkdir, n) :
             /\ issues[i].line_content = WithoutNewline(lines[n])
             /\ \A j \in MatchIssues :
                  (issues[j].line_number = n /\ j # i) => i < j

\* a RUN line with a cd sub-command that the pattern of the rule matches,
\* and that a rule earlier in the catalog matches too
C27_Witness ==
  /\ Returned
  /\ HasRule(TitleWorkdir)
  /\ \E n \in DOMAIN lines :
       /\ ChangesDirectory(lines[n])
       /\ RuleMatches(RuleByTitle(rules, TitleWorkdir), lines[n])
       /\ Cardinality(IssuesOfRuleOn(TitleWorkdir, n)) = 1
       /\ \E j \in MatchIssues :
            /\ issues[j].line_number = n
            /\ issues[j].rule.id < RuleByTitle(rules, TitleWorkdir).id

(***************************************************************************)
(* Properties of _ensure_docker_client and _get_image_info.                *)
(***************************************************************************)
\* C28: a call of _ensure_docker_client made after an attempt to connect
\* has failed returns False without another attempt, and so does a call
\* made while attempt_docker_builds is false.
C28_NoSecondAttempt ==
  ensure_call.called =>
    /\ ensure_call.failed_before =>
         (~ensure_call.attempted /\ ~ensure_call.returned)
    /\ ~ensure_call.builds =>
         (~ensure_call.attempted /\ ~ensure_call.returned)

\* C29: _get_image_info returns a pair on every path: the size and the
\* layer count measured after a successful build, and (0, 0) when the build
\* is skipped or fails, whatever the failure.
C29_AlwaysAPair ==
  image_info.called =>
    /\ image_info.returned = "pair"
    /\ \/ image_info.ensured /\ image_info.build = "built"
       \/ image_info.size = 0 /\ image_info.layer_count = 0

(***************************************************************************)
(* Properties of the pull request.                                         *)
(***************************************************************************)
\* the names of the remote operations of the last call, in their order
OperationNames == [i \in 1..Len(remote) |-> remote[i].op]

\* the contents written to the new branch by the last call
Committed ==
  {remote[i].content : i \in {j \in 1..Len(remote) :
                                remote[j].op = "update_file"}}

\* C30: both pull-request paths commit the same thing: what
\* optimize_from_github writes to the new branch is the post-processed
\* optimized Dockerfile of the analysis, as in create_pull_request; in
\* every path the remote operations are branch creation, then file update,
\* then pull-request creation, and no pull request is opened without a
\* preceding file update
C30_BothPathsCommitOptimizedContent ==
  pull_request.called =>
    /\ Committed \subseteq {analysis.optimized_content}
    /\ OperationNames \in
         {<<>>, <<"create_git_ref">>, <<"create_git_ref", "update_file">>,
          <<"create_git_ref", "update_file", "create_pull">>}

=============================================================================
